---------------------------- MODULE Spec2Model ----------------------------
(***************************************************************************)
(* The DDS container codec of blender_dds_addon/directx: the legacy pixel  *)
(* format and DX10 headers, DDSHeader.read / write / update, and the DDS   *)
(* container with load, save, get_disassembled_dds_list and assemble.      *)
(*                                                                         *)
(* Conventions of the model                                                *)
(*  - A file is a sequence of cells.  Every field of the ctypes structures *)
(*    that the code reads is one cell, in the order of _fields_; the       *)
(*    reserved fields, tool_name, null and bit_count are never read by the *)
(*    code and are left out.  A payload byte is one cell.                  *)
(*  - magic and fourCC cells hold the value of the c_char array (bytes up  *)
(*    to the first NUL) as a string.  A bit mask is a uint32 that the code *)
(*    only compares for equality; masks above 2^31-1 do not fit the        *)
(*    model checker's integers, so a mask is its eight hex digits.         *)
(*  - A member of the IntEnum DXGI_FORMAT is its integer value; its name   *)
(*    is the sequence of the parts between underscores (name.split("_")).  *)
(*  - Python objects live in heaps: header[i] is a DDSHeader object and    *)
(*    dds[i] a DDS object whose field header is an index into header, so   *)
(*    that two containers may hold the same header object.                 *)
(*  - A call that raises leaves err # "" and returns nothing.              *)
(*  - Width and height of every header are at least 1.                     *)
(*  - A native library is what the code observes of it: a handle is open   *)
(*    or closed, a call returns an error code, a context is allocated or   *)
(*    freed.  A call through a closed handle is undefined; the model       *)
(*    records that it happened.                                            *)
(***************************************************************************)
EXTENDS Integers, Sequences, FiniteSets, TLC

VARIABLES
    disk,     \* the file system: path -> file (<<>> when the path holds no file)
    header,   \* heap of DDSHeader objects
    dds,      \* heap of DDS objects: [header |-> index, slice_bin_list |-> slices]
    call,     \* the last call: operation, arguments, outcome, heap before it
    prev,     \* the call before the last one
    ncalls,   \* the number of calls made
    probe,    \* the last pure-function call of the header specifications
    lib,      \* the native libraries: the module globals DLL, the instances, the handles
    bpy       \* the Blender data: the images and the texture list of the selected image

vars == <<disk, header, dds, call, prev, ncalls, probe, lib, bpy>>

(***************************************************************************)
(* Bounds of the model.                                                    *)
(***************************************************************************)
MaxArray == 2      \* array_size and depth fields of an input file: 0..MaxArray
MaxSliceLen == 1   \* bytes per slice of an input file
MaxExtra == 1      \* bytes of an input file beyond num_slices * slice length
MaxDDS == 7        \* DDS objects on the heap
MaxCalls == 3      \* calls of one session
MaxDim == 4        \* width and height of an input file: 1 or MaxDim

Min(a, b) == IF a < b THEN a ELSE b

RECURSIVE BitAnd(_, _)
BitAnd(a, b) ==
    IF a = 0 \/ b = 0 THEN 0
    ELSE (a % 2) * (b % 2) + 2 * BitAnd(a \div 2, b \div 2)

BitOr(a, b) == a + b - BitAnd(a, b)

(***************************************************************************)
(* dxgi_format.py                                                          *)
(***************************************************************************)
DXGI_FORMAT ==
  {
    [value |-> 0, name |-> <<"UNKNOWN">>],
    [value |-> 1, name |-> <<"R32G32B32A32", "TYPELESS">>],
    [value |-> 2, name |-> <<"R32G32B32A32", "FLOAT">>],
    [value |-> 3, name |-> <<"R32G32B32A32", "UINT">>],
    [value |-> 4, name |-> <<"R32G32B32A32", "SINT">>],
    [value |-> 5, name |-> <<"R32G32B32", "TYPELESS">>],
    [value |-> 6, name |-> <<"R32G32B32", "FLOAT">>],
    [value |-> 7, name |-> <<"R32G32B32", "UINT">>],
    [value |-> 8, name |-> <<"R32G32B32", "SINT">>],
    [value |-> 9, name |-> <<"R16G16B16A16", "TYPELESS">>],
    [value |-> 10, name |-> <<"R16G16B16A16", "FLOAT">>],
    [value |-> 11, name |-> <<"R16G16B16A16", "UNORM">>],
    [value |-> 12, name |-> <<"R16G16B16A16", "UINT">>],
    [value |-> 13, name |-> <<"R16G16B16A16", "SNORM">>],
    [value |-> 14, name |-> <<"R16G16B16A16", "SINT">>],
    [value |-> 15, name |-> <<"R32G32", "TYPELESS">>],
    [value |-> 16, name |-> <<"R32G32", "FLOAT">>],
    [value |-> 17, name |-> <<"R32G32", "UINT">>],
    [value |-> 18, name |-> <<"R32G32", "SINT">>],
    [value |-> 19, name |-> <<"R32G8X24", "TYPELESS">>],
    [value |-> 20, name |-> <<"D32", "FLOAT", "S8X24", "UINT">>],
    [value |-> 21, name |-> <<"R32", "FLOAT", "X8X24", "TYPELESS">>],
    [value |-> 22, name |-> <<"X32", "TYPELESS", "G8X24", "UINT">>],
    [value |-> 23, name |-> <<"R10G10B10A2", "TYPELESS">>],
    [value |-> 24, name |-> <<"R10G10B10A2", "UNORM">>],
    [value |-> 25, name |-> <<"R10G10B10A2", "UINT">>],
    [value |-> 26, name |-> <<"R11G11B10", "FLOAT">>],
    [value |-> 27, name |-> <<"R8G8B8A8", "TYPELESS">>],
    [value |-> 28, name |-> <<"R8G8B8A8", "UNORM">>],
    [value |-> 29, name |-> <<"R8G8B8A8", "UNORM", "SRGB">>],
    [value |-> 30, name |-> <<"R8G8B8A8", "UINT">>],
    [value |-> 31, name |-> <<"R8G8B8A8", "SNORM">>],
    [value |-> 32, name |-> <<"R8G8B8A8", "SINT">>],
    [value |-> 33, name |-> <<"R16G16", "TYPELESS">>],
    [value |-> 34, name |-> <<"R16G16", "FLOAT">>],
    [value |-> 35, name |-> <<"R16G16", "UNORM">>],
    [value |-> 36, name |-> <<"R16G16", "UINT">>],
    [value |-> 37, name |-> <<"R16G16", "SNORM">>],
    [value |-> 38, name |-> <<"R16G16", "SINT">>],
    [value |-> 39, name |-> <<"R32", "TYPELESS">>],
    [value |-> 40, name |-> <<"D32", "FLOAT">>],
    [value |-> 41, name |-> <<"R32", "FLOAT">>],
    [value |-> 42, name |-> <<"R32", "UINT">>],
    [value |-> 43, name |-> <<"R32", "SINT">>],
    [value |-> 44, name |-> <<"R24G8", "TYPELESS">>],
    [value |-> 45, name |-> <<"D24", "UNORM", "S8", "UINT">>],
    [value |-> 46, name |-> <<"R24", "UNORM", "X8", "TYPELESS">>],
    [value |-> 47, name |-> <<"X24", "TYPELESS", "G8", "UINT">>],
    [value |-> 48, name |-> <<"R8G8", "TYPELESS">>],
    [value |-> 49, name |-> <<"R8G8", "UNORM">>],
    [value |-> 50, name |-> <<"R8G8", "UINT">>],
    [value |-> 51, name |-> <<"R8G8", "SNORM">>],
    [value |-> 52, name |-> <<"R8G8", "SINT">>],
    [value |-> 53, name |-> <<"R16", "TYPELESS">>],
    [value |-> 54, name |-> <<"R16", "FLOAT">>],
    [value |-> 55, name |-> <<"D16", "UNORM">>],
    [value |-> 56, name |-> <<"R16", "UNORM">>],
    [value |-> 57, name |-> <<"R16", "UINT">>],
    [value |-> 58, name |-> <<"R16", "SNORM">>],
    [value |-> 59, name |-> <<"R16", "SINT">>],
    [value |-> 60, name |-> <<"R8", "TYPELESS">>],
    [value |-> 61, name |-> <<"R8", "UNORM">>],
    [value |-> 62, name |-> <<"R8", "UINT">>],
    [value |-> 63, name |-> <<"R8", "SNORM">>],
    [value |-> 64, name |-> <<"R8", "SINT">>],
    [value |-> 65, name |-> <<"A8", "UNORM">>],
    [value |-> 66, name |-> <<"R1", "UNORM">>],
    [value |-> 67, name |-> <<"R9G9B9E5", "SHAREDEXP">>],
    [value |-> 68, name |-> <<"R8G8", "B8G8", "UNORM">>],
    [value |-> 69, name |-> <<"G8R8", "G8B8", "UNORM">>],
    [value |-> 70, name |-> <<"BC1", "TYPELESS">>],
    [value |-> 71, name |-> <<"BC1", "UNORM">>],
    [value |-> 72, name |-> <<"BC1", "UNORM", "SRGB">>],
    [value |-> 73, name |-> <<"BC2", "TYPELESS">>],
    [value |-> 74, name |-> <<"BC2", "UNORM">>],
    [value |-> 75, name |-> <<"BC2", "UNORM", "SRGB">>],
    [value |-> 76, name |-> <<"BC3", "TYPELESS">>],
    [value |-> 77, name |-> <<"BC3", "UNORM">>],
    [value |-> 78, name |-> <<"BC3", "UNORM", "SRGB">>],
    [value |-> 79, name |-> <<"BC4", "TYPELESS">>],
    [value |-> 80, name |-> <<"BC4", "UNORM">>],
    [value |-> 81, name |-> <<"BC4", "SNORM">>],
    [value |-> 82, name |-> <<"BC5", "TYPELESS">>],
    [value |-> 83, name |-> <<"BC5", "UNORM">>],
    [value |-> 84, name |-> <<"BC5", "SNORM">>],
    [value |-> 85, name |-> <<"B5G6R5", "UNORM">>],
    [value |-> 86, name |-> <<"B5G5R5A1", "UNORM">>],
    [value |-> 87, name |-> <<"B8G8R8A8", "UNORM">>],
    [value |-> 88, name |-> <<"B8G8R8X8", "UNORM">>],
    [value |-> 89, name |-> <<"R10G10B10", "XR", "BIAS", "A2", "UNORM">>],
    [value |-> 90, name |-> <<"B8G8R8A8", "TYPELESS">>],
    [value |-> 91, name |-> <<"B8G8R8A8", "UNORM", "SRGB">>],
    [value |-> 92, name |-> <<"B8G8R8X8", "TYPELESS">>],
    [value |-> 93, name |-> <<"B8G8R8X8", "UNORM", "SRGB">>],
    [value |-> 94, name |-> <<"BC6H", "TYPELESS">>],
    [value |-> 95, name |-> <<"BC6H", "UF16">>],
    [value |-> 96, name |-> <<"BC6H", "SF16">>],
    [value |-> 97, name |-> <<"BC7", "TYPELESS">>],
    [value |-> 98, name |-> <<"BC7", "UNORM">>],
    [value |-> 99, name |-> <<"BC7", "UNORM", "SRGB">>],
    [value |-> 100, name |-> <<"AYUV">>],
    [value |-> 101, name |-> <<"Y410">>],
    [value |-> 102, name |-> <<"Y416">>],
    [value |-> 103, name |-> <<"NV12">>],
    [value |-> 104, name |-> <<"P010">>],
    [value |-> 105, name |-> <<"P016">>],
    [value |-> 106, name |-> <<"OPAQUE", "420">>],
    [value |-> 107, name |-> <<"YUY2">>],
    [value |-> 108, name |-> <<"Y210">>],
    [value |-> 109, name |-> <<"Y216">>],
    [value |-> 110, name |-> <<"NV11">>],
    [value |-> 111, name |-> <<"AI44">>],
    [value |-> 112, name |-> <<"IA44">>],
    [value |-> 113, name |-> <<"P8">>],
    [value |-> 114, name |-> <<"A8P8">>],
    [value |-> 115, name |-> <<"B4G4R4A4", "UNORM">>],
    [value |-> 130, name |-> <<"P208">>],
    [value |-> 131, name |-> <<"V208">>],
    [value |-> 132, name |-> <<"V408">>],
    [value |-> 133, name |-> <<"ASTC", "4X4", "TYPELESS">>],
    [value |-> 134, name |-> <<"ASTC", "4X4", "UNORM">>]
  }

\* The members of DXGI_FORMAT that the tables and the input files name.
UNKNOWN == 0
BC1_UNORM == 71
BC2_UNORM == 74
BC3_UNORM == 77
BC4_UNORM == 80
BC5_UNORM == 83
BC4_SNORM == 81
BC5_SNORM == 84
BC6H_UF16 == 95
BC7_UNORM == 98
R8G8_B8G8_UNORM == 68
G8R8_G8B8_UNORM == 69
YUY2 == 107
R16G16B16A16_UNORM == 11
R16G16B16A16_SNORM == 13
R16_FLOAT == 54
R16G16_FLOAT == 34
R16G16B16A16_FLOAT == 10
R32_FLOAT == 41
R32G32_FLOAT == 16
R32G32B32A32_FLOAT == 2
B8G8R8A8_UNORM == 87
B8G8R8X8_UNORM == 88
R8G8B8A8_UNORM == 28
R10G10B10A2_UNORM == 24
R16G16_UNORM == 35
B5G5R5A1_UNORM == 86
B5G6R5_UNORM == 85
B4G4R4A4_UNORM == 115
R8G8_UNORM == 49
R16_UNORM == 56
R8_UNORM == 61
A8_UNORM == 65
ASTC_4X4_UNORM == 134

\* fmt.name.split("_")
NameOf(fmt) == (CHOOSE m \in DXGI_FORMAT : m.value = fmt).name

\* [fmt.value for fmt in DXGI_FORMAT]
DXGI_VALUES == {m.value : m \in DXGI_FORMAT}

is_valid_format(name) == \E m \in DXGI_FORMAT : m.name = name

new_num_types == [UNORM |-> "SNORM", UINT |-> "SINT"]

\* DXGI_FORMAT.get_signed: line 162 adds a str to a list, which raises
\* TypeError whenever the number type is a key of new_num_types, so the
\* lookup of the new name (lines 166-169) is never reached.
get_signed(fmt) ==
    LET splitted == NameOf(fmt)
        num_type == splitted[Len(splitted)]
    IN  IF num_type \in DOMAIN new_num_types
        THEN [err |-> "TypeError", fmt |-> fmt]
        ELSE [err |-> "", fmt |-> fmt]

FOURCC_TO_DXGI ==
    << <<{"DXT1"}, BC1_UNORM>>,
       <<{"DXT2", "DXT3"}, BC2_UNORM>>,
       <<{"DXT4", "DXT5"}, BC3_UNORM>>,
       <<{"ATI1", "BC4U", "3DC1"}, BC4_UNORM>>,
       <<{"ATI2", "BC5U", "3DC2"}, BC5_UNORM>>,
       <<{"BC4S"}, BC4_SNORM>>,
       <<{"BC5S"}, BC5_SNORM>>,
       <<{"BC6H"}, BC6H_UF16>>,
       <<{"BC7L", "BC7"}, BC7_UNORM>>,
       <<{"RGBG"}, R8G8_B8G8_UNORM>>,
       <<{"GRGB"}, G8R8_G8B8_UNORM>>,
       <<{"YUY2", "UYVY"}, YUY2>>,
       <<{"$"}, R16G16B16A16_UNORM>>,
       <<{"n"}, R16G16B16A16_SNORM>>,
       <<{"o"}, R16_FLOAT>>,
       <<{"p"}, R16G16_FLOAT>>,
       <<{"q"}, R16G16B16A16_FLOAT>>,
       <<{"r"}, R32_FLOAT>>,
       <<{"s"}, R32G32_FLOAT>>,
       <<{"t"}, R32G32B32A32_FLOAT>> >>

BITMASK_TO_DXGI ==
    << << <<"00ff0000", "0000ff00", "000000ff", "ff000000">>, B8G8R8A8_UNORM>>,
       << <<"00ff0000", "0000ff00", "000000ff", "00000000">>, B8G8R8X8_UNORM>>,
       << <<"000000ff", "0000ff00", "00ff0000", "ff000000">>, R8G8B8A8_UNORM>>,
       << <<"3ff00000", "000ffc00", "000003ff", "c0000000">>, R10G10B10A2_UNORM>>,
       << <<"0000ffff", "ffff0000", "00000000", "00000000">>, R16G16_UNORM>>,
       << <<"ffffffff", "00000000", "00000000", "00000000">>, R32_FLOAT>>,
       << <<"00007c00", "000003e0", "0000001f", "00008000">>, B5G5R5A1_UNORM>>,
       << <<"0000f800", "000007e0", "0000001f", "00000000">>, B5G6R5_UNORM>>,
       << <<"00000f00", "000000f0", "0000000f", "0000f000">>, B4G4R4A4_UNORM>>,
       << <<"000000ff", "00000000", "00000000", "0000ff00">>, R8G8_UNORM>>,
       << <<"0000ffff", "00000000", "00000000", "00000000">>, R16_UNORM>>,
       << <<"000000ff", "00000000", "00000000", "00000000">>, R8_UNORM>>,
       << <<"00000000", "00000000", "00000000", "000000ff">>, A8_UNORM>> >>

(***************************************************************************)
(* dds.py: DDSPixelFormat                                                  *)
(***************************************************************************)
PF_FLAGS_FOURCC == 4
PF_FLAGS_BUMPDUDV == 524288

UNCANONICAL_FOURCC ==
    {"ETC", "ETC1", "ETC2", "ET2A", "PTC2", "PTC4", "ATC", "ATCA", "ATCE", "ATCI", "AS:5"}

PF_SIZE == 32
ZERO_MASK == <<"00000000", "00000000", "00000000", "00000000">>

\* DDSPixelFormat.__init__
DDSPixelFormat ==
    [size |-> PF_SIZE, flags |-> PF_FLAGS_FOURCC, fourCC |-> "DX10", bit_mask |-> ZERO_MASK]

is_bit_mask(pf, bit_mask) == \A i \in 1..4 : pf.bit_mask[i] = bit_mask[i]

\* Faulty variant of is_canonical: every fourCC passes.
is_canonical_any(pf) == TRUE

is_canonical(pf) == pf.fourCC \notin UNCANONICAL_FOURCC

is_dx10(pf) == pf.fourCC = "DX10"

\* The first entry of FOURCC_TO_DXGI whose list holds the fourCC (0: none).
FourCCEntry(pf) ==
    LET hits == {i \in DOMAIN FOURCC_TO_DXGI : pf.fourCC \in FOURCC_TO_DXGI[i][1]}
    IN  IF hits = {} THEN 0 ELSE CHOOSE i \in hits : \A j \in hits : i <= j

\* The last entry of BITMASK_TO_DXGI equal to the four masks (0: none): the
\* loop of lines 77-79 does not stop at the first hit.
BitMaskEntry(pf) ==
    LET hits == {i \in DOMAIN BITMASK_TO_DXGI : is_bit_mask(pf, BITMASK_TO_DXGI[i][1])}
    IN  IF hits = {} THEN 0 ELSE CHOOSE i \in hits : \A j \in hits : i >= j

\* Lines 85-89: the result of get_signed r for a bit mask hit under BUMPDUDV.
Signed(r) ==
    [err |-> r.err, fmt |-> IF r.err = "" THEN r.fmt ELSE UNKNOWN, path |-> "bitmask"]

\* Faulty variant of FromBitMask: the BUMPDUDV branch is taken before the
\* test for a missing hit, so get_signed is called on None.
FromBitMask_bump_first(pf, entry) ==
    IF BitAnd(pf.flags, PF_FLAGS_BUMPDUDV) # 0
    THEN IF entry = 0
         THEN [err |-> "AttributeError", fmt |-> UNKNOWN, path |-> "bitmask"]
         ELSE Signed(get_signed(BITMASK_TO_DXGI[entry][2]))
    ELSE IF entry = 0
    THEN [err |-> "", fmt |-> B8G8R8A8_UNORM, path |-> "fallback"]
    ELSE [err |-> "", fmt |-> BITMASK_TO_DXGI[entry][2], path |-> "bitmask"]

\* Lines 75-89 of get_dxgi, entry the hit in BITMASK_TO_DXGI.
FromBitMask(pf, entry) ==
    IF entry = 0
    THEN [err |-> "", fmt |-> B8G8R8A8_UNORM, path |-> "fallback"]
    ELSE IF BitAnd(pf.flags, PF_FLAGS_BUMPDUDV) # 0
    THEN Signed(get_signed(BITMASK_TO_DXGI[entry][2]))
    ELSE [err |-> "", fmt |-> BITMASK_TO_DXGI[entry][2], path |-> "bitmask"]

\* Faulty variant of FromFourCC: the bit masks are looked up first.
FromFourCC_masks_first(pf, entry) ==
    IF BitMaskEntry(pf) # 0 \/ ~(BitAnd(pf.flags, PF_FLAGS_FOURCC) # 0 /\ entry # 0)
    THEN FromBitMask(pf, BitMaskEntry(pf))
    ELSE [err |-> "", fmt |-> FOURCC_TO_DXGI[entry][2], path |-> "fourcc"]

\* Lines 69-89 of get_dxgi, entry the hit in FOURCC_TO_DXGI.
FromFourCC(pf, entry) ==
    IF BitAnd(pf.flags, PF_FLAGS_FOURCC) # 0 /\ entry # 0
    THEN [err |-> "", fmt |-> FOURCC_TO_DXGI[entry][2], path |-> "fourcc"]
    ELSE FromBitMask(pf, BitMaskEntry(pf))

\* DDSPixelFormat.get_dxgi: [err, fmt, path], path the branch that decided.
PixelFormat_get_dxgi(pf) ==
    IF ~is_canonical(pf)
    THEN [err |-> "NonStandardFourCC", fmt |-> UNKNOWN, path |-> "none"]
    ELSE FromFourCC(pf, FourCCEntry(pf))

(***************************************************************************)
(* dds.py: DDS_FLAGS, DDS_CAPS, DDS_CAPS2                                  *)
(***************************************************************************)
DDS_FLAGS_CAPS == 1
DDS_FLAGS_HEIGHT == 2
DDS_FLAGS_WIDTH == 4
DDS_FLAGS_PITCH == 8
DDS_FLAGS_PIXELFORMAT == 4096
DDS_FLAGS_MIPMAPCOUNT == 131072
DDS_FLAGS_LINEARSIZE == 524288
DDS_FLAGS_DEPTH == 8388608
DDS_FLAGS_DEFAULT ==
    BitOr(DDS_FLAGS_CAPS, BitOr(DDS_FLAGS_HEIGHT, BitOr(DDS_FLAGS_WIDTH,
        BitOr(DDS_FLAGS_PIXELFORMAT, DDS_FLAGS_MIPMAPCOUNT))))

get_flags(is_compressed, is_3d) ==
    LET f1 == IF is_compressed THEN BitOr(DDS_FLAGS_DEFAULT, DDS_FLAGS_LINEARSIZE)
              ELSE BitOr(DDS_FLAGS_DEFAULT, DDS_FLAGS_PITCH)
    IN  IF is_3d THEN BitOr(f1, DDS_FLAGS_DEPTH) ELSE f1

has_pitch(flags) == BitAnd(flags, DDS_FLAGS_PITCH) > 0

DDS_CAPS_CUBEMAP == 8
DDS_CAPS_MIPMAP == 4194312
DDS_CAPS_REQUIRED == 4096

get_caps(has_mips, is_cube) ==
    LET c1 == IF has_mips THEN BitOr(DDS_CAPS_REQUIRED, DDS_CAPS_MIPMAP)
              ELSE DDS_CAPS_REQUIRED
    IN  IF is_cube THEN BitOr(c1, DDS_CAPS_CUBEMAP) ELSE c1

DDS_CAPS2_CUBEMAP == 512
DDS_CAPS2_CUBEMAP_FULL == 65024
DDS_CAPS2_VOLUME == 2097152

get_caps2(is_cube, is_3d) ==
    LET c1 == IF is_cube THEN DDS_CAPS2_CUBEMAP_FULL ELSE 0
    IN  IF is_3d THEN BitOr(c1, DDS_CAPS2_VOLUME) ELSE c1

caps2_is_cube(caps2) == BitAnd(caps2, DDS_CAPS2_CUBEMAP) > 0

(***************************************************************************)
(* dds.py: DX10Header                                                      *)
(***************************************************************************)
\* DX10Header(): a ctypes structure starts zeroed.
DX10Header ==
    [dxgi_format |-> 0, resource_dimension |-> 0, misc_flags |-> 0,
     array_size |-> 0, misc_flags2 |-> 0]

DX10Header_get_dxgi(dx10) ==
    IF dx10.dxgi_format \notin DXGI_VALUES
    THEN [err |-> "UnsupportedDXGI", fmt |-> UNKNOWN]
    ELSE [err |-> "", fmt |-> dx10.dxgi_format]

Bit(b) == IF b THEN 1 ELSE 0

DX10Header_update(dxgi_format, is_cube, is_3d, array_size) ==
    [dxgi_format |-> dxgi_format, resource_dimension |-> 3 + Bit(is_3d),
     misc_flags |-> 4 * Bit(is_cube), array_size |-> array_size, misc_flags2 |-> 0]

(***************************************************************************)
(* dds.py: DDSHeader                                                       *)
(***************************************************************************)
MAGIC == "DDS "
HEAD_SIZE == 124

\* DDSHeader.__init__: the fields the constructor sets, the others zeroed.
DDSHeader ==
    [magic |-> MAGIC, head_size |-> HEAD_SIZE, flags |-> 0, height |-> 0, width |-> 0,
     pitch_or_linear_size |-> 0, depth |-> 0, mipmap_num |-> 1,
     pixel_format |-> DDSPixelFormat, caps |-> 0, caps2 |-> 0,
     dx10_header |-> DX10Header, dxgi_format |-> UNKNOWN]

is_cube(head) == caps2_is_cube(head.caps2)
is_3d(head) == head.depth > 1
has_mips(head) == head.mipmap_num > 1
is_array(head) == head.dx10_header.array_size > 1
get_array_size(head) == head.dx10_header.array_size

\* "BC" in name or "ASTC" in name: the names of the catalog that hold "BC"
\* start with BC1..BC7, those that hold "ASTC" start with ASTC.
is_compressed(head) ==
    LET name == NameOf(head.dxgi_format)
    IN  name[1] \in {"BC1", "BC2", "BC3", "BC4", "BC5", "BC6H", "BC7", "ASTC"}

\* Faulty variant of get_num_slices: the faces of a cube map are not counted.
get_num_slices_flat(head) == get_array_size(head) * head.depth

get_num_slices(head) ==
    get_array_size(head) * head.depth * (1 + Bit(is_cube(head)) * 5)

get_bpp(head) ==
    LET bpp == head.pitch_or_linear_size \div head.width
    IN  IF ~has_pitch(head.flags) THEN bpp \div head.height ELSE bpp

\* Lines 344-353 of update, for the header h1 with its new depth and the
\* bpp and flags computed from it.
Updated(h1, bpp, flags, array_size) ==
    [h1 EXCEPT
        !.flags = flags,
        !.pitch_or_linear_size =
            IF has_pitch(flags) THEN h1.width * bpp ELSE h1.width * h1.height * bpp,
        !.caps = get_caps(has_mips(h1), is_cube(h1)),
        !.caps2 = get_caps2(is_cube(h1), is_3d(h1)),
        !.dx10_header = DX10Header_update(h1.dxgi_format, is_cube(h1), is_3d(h1), array_size),
        !.pixel_format = DDSPixelFormat]

WithDepth(h1, array_size) ==
    Updated(h1, get_bpp(h1), get_flags(is_compressed(h1), is_3d(h1)), array_size)

\* DDSHeader.update(depth, array_size): the header after the call.
update(head, depth, array_size) == WithDepth([head EXCEPT !.depth = depth], array_size)

disassemble(head) == update(head, 1, 1)

\* Faulty variant of assemble: the inputs always become the layers of a volume.
assemble_as_volume(head, as_array, size) == update(head, size, 1)

assemble(head, as_array, size) ==
    IF as_array THEN update(head, 1, size) ELSE update(head, size, 1)

(***************************************************************************)
(* The file codec: DDSHeader.write / read, DDS.save / load                 *)
(***************************************************************************)
\* f.write(self): the cells of the fixed header, in the order of _fields_.
HeaderCells(head) ==
    <<head.magic, head.head_size, head.flags, head.height, head.width,
      head.pitch_or_linear_size, head.depth, head.mipmap_num,
      head.pixel_format.size, head.pixel_format.flags, head.pixel_format.fourCC,
      head.pixel_format.bit_mask[1], head.pixel_format.bit_mask[2],
      head.pixel_format.bit_mask[3], head.pixel_format.bit_mask[4],
      head.caps, head.caps2>>

DX10Cells(dx10) ==
    <<dx10.dxgi_format, dx10.resource_dimension, dx10.misc_flags,
      dx10.array_size, dx10.misc_flags2>>

\* Faulty variant of write: the DX10 header is never written.
write_fixed_only(head) == HeaderCells(head)

\* DDSHeader.write
write(head) ==
    IF is_dx10(head.pixel_format)
    THEN HeaderCells(head) \o DX10Cells(head.dx10_header)
    ELSE HeaderCells(head)

\* f.readinto(struct): cell i after position pos, or the field's current
\* value when the file ends before it.
Cell(file, pos, i, current) == IF pos + i <= Len(file) THEN file[pos + i] ELSE current

ReadHeaderCells(file) ==
    LET d == DDSHeader
        c(i, cur) == Cell(file, 0, i, cur)
    IN  [d EXCEPT
            !.magic = c(1, d.magic),
            !.head_size = c(2, d.head_size),
            !.flags = c(3, d.flags),
            !.height = c(4, d.height),
            !.width = c(5, d.width),
            !.pitch_or_linear_size = c(6, d.pitch_or_linear_size),
            !.depth = c(7, d.depth),
            !.mipmap_num = c(8, d.mipmap_num),
            !.pixel_format =
                [size |-> c(9, d.pixel_format.size),
                 flags |-> c(10, d.pixel_format.flags),
                 fourCC |-> c(11, d.pixel_format.fourCC),
                 bit_mask |-> <<c(12, d.pixel_format.bit_mask[1]),
                                c(13, d.pixel_format.bit_mask[2]),
                                c(14, d.pixel_format.bit_mask[3]),
                                c(15, d.pixel_format.bit_mask[4])>>],
            !.caps = c(16, d.caps),
            !.caps2 = c(17, d.caps2)]

ReadDX10Cells(file, pos) ==
    LET d == DX10Header
    IN  [dxgi_format |-> Cell(file, pos, 1, d.dxgi_format),
         resource_dimension |-> Cell(file, pos, 2, d.resource_dimension),
         misc_flags |-> Cell(file, pos, 3, d.misc_flags),
         array_size |-> Cell(file, pos, 4, d.array_size),
         misc_flags2 |-> Cell(file, pos, 5, d.misc_flags2)]

HeaderLen == Len(HeaderCells(DDSHeader))
DX10Len == Len(DX10Cells(DX10Header))

\* Line 306: head.mipmap_num += head.mipmap_num == 0
CoerceMips(head) == [head EXCEPT !.mipmap_num = IF @ = 0 THEN 1 ELSE @]

\* Lines 310-311: the DX10 header dx10 has been read, r is its get_dxgi().
ResolvedDX10(h1, dx10, r, tell) ==
    [err |-> r.err,
     head |-> [h1 EXCEPT !.dx10_header = dx10, !.dxgi_format = r.fmt],
     tell |-> tell]

\* Line 314: head.dx10_header.update(head.dxgi_format, is_cube, is_3d, 1)
LegacyDX10(h2) ==
    [h2 EXCEPT !.dx10_header = DX10Header_update(h2.dxgi_format, is_cube(h2), is_3d(h2), 1)]

\* Lines 313-314: r is pixel_format.get_dxgi().
ResolvedLegacy(h1, r, tell) ==
    [err |-> r.err, head |-> LegacyDX10([h1 EXCEPT !.dxgi_format = r.fmt]), tell |-> tell]

\* Lines 308-314 of read, for the coerced fixed header h1: [err, head, tell],
\* tell the file position after the headers.
Resolve(file, h1) ==
    IF is_dx10(h1.pixel_format)
    THEN ResolvedDX10(h1, ReadDX10Cells(file, Min(HeaderLen, Len(file))),
                      DX10Header_get_dxgi(ReadDX10Cells(file, Min(HeaderLen, Len(file)))),
                      Min(HeaderLen + DX10Len, Len(file)))
    ELSE ResolvedLegacy(h1, PixelFormat_get_dxgi(h1.pixel_format), Min(HeaderLen, Len(file)))

\* Lines 316-322 of read: the checks made once the format is resolved.
Checked(r) ==
    IF r.err # "" THEN r
    ELSE IF r.head.magic # MAGIC \/ r.head.head_size # HEAD_SIZE
    THEN [r EXCEPT !.err = "NotDDS"]
    ELSE IF r.head.dx10_header.resource_dimension = 2
    THEN [r EXCEPT !.err = "Unsupported1D"]
    ELSE r

\* DDSHeader.read: [err, head, tell].
read(file) == Checked(Resolve(file, CoerceMips(ReadHeaderCells(file))))

\* Line 502: the num_slices reads of slice_size bytes each.
ReadSlices(file, tell, num_slices, slice_size) ==
    [i \in 1..num_slices |->
        SubSeq(file, tell + (i - 1) * slice_size + 1, tell + i * slice_size)]

\* Lines 499-503 of load, r the header read.
Partition(file, r, num_slices) ==
    IF r.err # "" THEN [err |-> r.err, head |-> r.head, slices |-> <<>>]
    ELSE IF num_slices = 0
    THEN [err |-> "ZeroDivisionError", head |-> r.head, slices |-> <<>>]
    ELSE [err |-> "", head |-> r.head,
          slices |-> ReadSlices(file, r.tell, num_slices,
                                (Len(file) - r.tell) \div num_slices)]

LoadHeader(file, r) == Partition(file, r, get_num_slices(r.head))

\* DDS.load: [err, head, slices].
load(file) == LoadHeader(file, read(file))

RECURSIVE Concat(_)
Concat(ss) == IF ss = <<>> THEN <<>> ELSE Head(ss) \o Concat(Tail(ss))

\* DDS.save: the file written for a header and a slice list.
save(head, slice_bin_list) == write(head) \o Concat(slice_bin_list)

(***************************************************************************)
(* dds.py: the mip layout (get_block_size, get_byte_per_block,             *)
(* get_mip_sizes)                                                          *)
(***************************************************************************)
\* sub in fmt, for the substrings the code tests: in the names of the
\* catalog each of them only occurs as a whole part between underscores.
HasPart(name, sub) == \E i \in DOMAIN name : name[i] = sub

\* "BC" in fmt: the parts of the catalog that hold "BC".
HasBC(name) ==
    \E i \in DOMAIN name : name[i] \in {"BC1", "BC2", "BC3", "BC4", "BC5", "BC6H", "BC7"}

\* fmt.split("_")[1].split("X") as two integers, for the block sizes of the
\* ASTC names of the catalog and of the names handed to compress_astc.
ParsedBlock == [b \in {"4X4", "6X6"} |-> IF b = "4X4" THEN <<4, 4>> ELSE <<6, 6>>]

get_block_size(head) ==
    IF HasPart(NameOf(head.dxgi_format), "ASTC")
    THEN ParsedBlock[NameOf(head.dxgi_format)[2]]
    ELSE IF HasBC(NameOf(head.dxgi_format)) THEN <<4, 4>>
    ELSE <<1, 1>>

\* get_byte_per_block: [err, value].
BytePerBlockOf(name) ==
    IF HasPart(name, "ASTC") THEN [err |-> "", value |-> 16]
    ELSE IF HasPart(name, "B8G8R8A8") THEN [err |-> "", value |-> 4]
    ELSE IF HasPart(name, "R16G16B16A16") THEN [err |-> "", value |-> 8]
    ELSE IF HasPart(name, "R32G32B32A32") THEN [err |-> "", value |-> 16]
    ELSE [err |-> "UnsupportedFormat", value |-> 0]

get_byte_per_block(head) == BytePerBlockOf(NameOf(head.dxgi_format))

\* math.ceil(a / b) for positive integers.
CeilDiv(a, b) == (a + b - 1) \div b

Max(a, b) == IF a > b THEN a ELSE b

\* Faulty variant of BinSize: the block counts are rounded down.
BinSize_floor(width, height, block, byte_per_block) ==
    (width \div block[1]) * (height \div block[2]) * byte_per_block

\* bin_size of one mip level.
BinSize(width, height, block, byte_per_block) ==
    CeilDiv(width, block[1]) * CeilDiv(height, block[2]) * byte_per_block

\* The loop of get_mip_sizes: the entries of the n levels from
\* (width, height) at bin_pos on.
RECURSIVE MipLevels(_, _, _, _, _, _)
MipLevels(width, height, block, byte_per_block, bin_pos, n) ==
    IF n = 0 THEN <<>>
    ELSE << <<width, height, bin_pos, BinSize(width, height, block, byte_per_block)>> >>
         \o MipLevels(Max(width \div 2, 1), Max(height \div 2, 1), block, byte_per_block,
                      bin_pos + BinSize(width, height, block, byte_per_block), n - 1)

MipSizesWith(head, block, bpb) ==
    IF bpb.err # "" THEN [err |-> bpb.err, sizes |-> <<>>]
    ELSE [err |-> "",
          sizes |-> MipLevels(head.width, head.height, block, bpb.value, 0, head.mipmap_num)]

\* DDSHeader.get_mip_sizes: [err, sizes].
get_mip_sizes(head) == MipSizesWith(head, get_block_size(head), get_byte_per_block(head))


\* Faulty variant of get_texture_type: the cubemap bit is tested before the
\* depth.
get_texture_type_cube_first(head) ==
    IF is_cube(head)
    THEN IF is_array(head) THEN "cube_array" ELSE "cube"
    ELSE IF is_3d(head) THEN "volume"
    ELSE IF is_array(head) THEN "2d_array" ELSE "2d"

\* DDSHeader.get_texture_type
get_texture_type(head) ==
    IF is_3d(head) THEN "volume"
    ELSE (IF is_cube(head) THEN "cube" ELSE "2d")
         \o (IF is_array(head) THEN "_array" ELSE "")

(***************************************************************************)
(* The native libraries and the Blender data                               *)
(***************************************************************************)
Libs == {"texconv", "astcenc"}

\* os: platform.system(); dlclose: find_library finds a library with dlclose.
\* DLL[l]: the module global (0 is None); dll[l][i]: self.dll of the i-th
\* instance; open: the handles the process holds; loads: the handles made
\* so far; contexts: the codec contexts allocated and not freed; log: the
\* image calls of the last conversion; fault: a call went through a closed
\* handle; op, of, err: the last call, the library it was made on and the
\* error it raised; n: the calls made.
NoLib ==
    [os |-> "Linux", dlclose |-> TRUE, DLL |-> [l \in Libs |-> 0],
     dll |-> [l \in Libs |-> <<>>], open |-> {}, loads |-> 0, contexts |-> 0,
     log |-> <<>>, fault |-> FALSE, op |-> "none", of |-> "", err |-> "", n |-> 0]

\* get_dll_close() is not None: texconv.get_dll_close returns a function in
\* the Windows and the Linux branch only; util.get_dll_close, which
\* astcenc.py uses, on Windows or when find_library finds dlclose.
get_dll_close(L, l) ==
    IF l = "texconv" THEN L.os \in {"Windows", "Linux"}
    ELSE L.os = "Windows" \/ L.dlclose

\* unload_texconv() / unload_astcenc()
unload(L, l) ==
    IF L.DLL[l] = 0 THEN [L EXCEPT !.err = ""]
    ELSE IF ~get_dll_close(L, l) THEN [L EXCEPT !.err = "Failed to unload DLL."]
    ELSE [L EXCEPT !.open = @ \ {L.DLL[l]}, !.DLL[l] = 0, !.err = ""]

\* Texconv() / Astcenc(): load_dll on a new instance; the library file is
\* taken to exist.
load_dll(L, l) ==
    IF L.DLL[l] # 0
    THEN [L EXCEPT !.dll[l] = Append(@, L.DLL[l]), !.err = ""]
    ELSE [L EXCEPT !.loads = @ + 1, !.open = @ \cup {L.loads + 1},
                   !.DLL[l] = L.loads + 1, !.dll[l] = Append(@, L.loads + 1),
                   !.err = ""]

\* unload_dll of instance i, U the state after unload_texconv() /
\* unload_astcenc(): self.dll = None when that returned.
DllUnset(U, l, i) == IF U.err # "" THEN U ELSE [U EXCEPT !.dll[l][i] = 0]

unload_dll(L, l, i) == DllUnset(unload(L, l), l, i)

\* A method of instance i that calls into self.dll: convert_to_tga /
\* convert_to_dds of Texconv (which test self.dll is None first) and
\* config_init of Astcenc (where None has no attribute to call).
call_dll(L, l, i) ==
    IF L.dll[l][i] = 0
    THEN [L EXCEPT !.err = IF l = "texconv" THEN "texconv is unloaded." ELSE "AttributeError"]
    ELSE IF L.dll[l][i] \notin L.open THEN [L EXCEPT !.fault = TRUE, !.err = ""]
    ELSE [L EXCEPT !.err = ""]

\* compress_image / decompress_image of Astcenc instance i: context_alloc,
\* the image call for every thread index, the reset, context_free; error
\* names the native call that returns an error code ("" for none).
compress_image(L, i, error) ==
    IF L.dll["astcenc"][i] = 0 THEN [L EXCEPT !.err = "AttributeError"]
    ELSE IF L.dll["astcenc"][i] \notin L.open THEN [L EXCEPT !.fault = TRUE, !.err = ""]
    ELSE IF error = "alloc" THEN [L EXCEPT !.err = "Failed to allocate AstcencContext"]
    ELSE IF error = "image"
    THEN [L EXCEPT !.contexts = @ + 1, !.err = "Failed to compress an image as ASTC"]
    ELSE IF error = "reset"
    THEN [L EXCEPT !.contexts = @ + 1, !.err = "Failed to reset AstcencContext"]
    ELSE [L EXCEPT !.err = ""]

\* images: bpy.data.images; texture_list and list_index: the properties of
\* the selected image, an item being the number of the add() that made it;
\* made: the items made so far.
NoBpy ==
    [op |-> "none", files |-> <<>>, images |-> <<>>, ret |-> "", err |-> "",
     texture_list |-> <<>>, list_index |-> 0, made |-> 0]
(***************************************************************************)
(* Input files                                                             *)
(***************************************************************************)
Payload(n) == [i \in 1..n |-> i]

Sizes == {1, MaxDim}

\* The block size and the bytes per block of the formats of the input
\* files: B8G8R8A8_UNORM (one pixel of 4 bytes), BC1_UNORM (4x4 pixels in 8
\* bytes) and ASTC_4X4_UNORM (4x4 pixels in 16 bytes).
InputBlock(dxgi) == IF dxgi = B8G8R8A8_UNORM THEN <<1, 1>> ELSE <<4, 4>>
InputBytes(dxgi) ==
    IF dxgi = B8G8R8A8_UNORM THEN 4 ELSE IF dxgi = BC1_UNORM THEN 8 ELSE 16

\* The bytes of one slice of an input file that holds every mip level.
RECURSIVE ChainSize(_, _, _, _)
ChainSize(dxgi, w, h, mips) ==
    IF mips = 0 THEN 0
    ELSE BinSize(w, h, InputBlock(dxgi), InputBytes(dxgi))
         + ChainSize(dxgi, Max(w \div 2, 1), Max(h \div 2, 1), mips - 1)

\* A file as a DDS writer lays it out.  fourCC "DX10" gives a DX10 file of
\* format dxgi; any other fourCC a legacy file (no DX10 cells).
MkFile(fourCC, dxgi, w, h, depth, array_size, cube, mips, n) ==
    write([DDSHeader EXCEPT
              !.flags = get_flags(dxgi # B8G8R8A8_UNORM, depth > 1),
              !.height = h, !.width = w,
              !.pitch_or_linear_size =
                  IF dxgi = B8G8R8A8_UNORM THEN 4 * w
                  ELSE BinSize(w, h, InputBlock(dxgi), InputBytes(dxgi)),
              !.depth = depth, !.mipmap_num = mips,
              !.pixel_format = [DDSPixelFormat EXCEPT !.fourCC = fourCC],
              !.caps = get_caps(mips > 1, cube),
              !.caps2 = get_caps2(cube, depth > 1),
              !.dx10_header = DX10Header_update(dxgi, cube, depth > 1, array_size)])
    \o Payload(n)

\* The payload lengths tried for a header of s slices.
PayloadLens(s) == {s * MaxSliceLen + r : r \in 0..MaxExtra}

Slices(depth, array_size, cube) == array_size * depth * (IF cube THEN 6 ELSE 1)

Paths == {"a", "b"}

(***************************************************************************)
(* The calls on the heap                                                   *)
(***************************************************************************)
NoCall ==
    [op |-> "none", path |-> "", args |-> <<>>, is_array |-> FALSE,
     err |-> "", out |-> <<>>, header0 |-> <<>>, dds0 |-> <<>>]

Called(op, path, args, as_array, err, out) ==
    /\ call' = [op |-> op, path |-> path, args |-> args, is_array |-> as_array,
                err |-> err, out |-> out, header0 |-> header, dds0 |-> dds]
    /\ prev' = call
    /\ ncalls' = ncalls + 1

\* The heap after DDS.load returned or raised r.
Loaded(p, r) ==
    IF r.err # ""
    THEN /\ UNCHANGED <<header, dds>>
         /\ Called("load", p, <<>>, FALSE, r.err, <<>>)
    ELSE /\ header' = Append(header, r.head)
         /\ dds' = Append(dds, [header |-> Len(header) + 1, slice_bin_list |-> r.slices])
         /\ Called("load", p, <<>>, FALSE, "", <<Len(dds) + 1>>)

\* dds = DDS.load(path)
Load(p) ==
    /\ ncalls < MaxCalls
    /\ disk[p] # <<>>
    /\ Len(dds) < MaxDDS
    /\ Loaded(p, load(disk[p]))
    /\ UNCHANGED <<disk, probe, lib, bpy>>

\* dds[c].save(path)
Save(c, p) ==
    /\ ncalls < MaxCalls
    /\ disk' = [disk EXCEPT ![p] = save(header[dds[c].header], dds[c].slice_bin_list)]
    /\ Called("save", p, <<c>>, FALSE, "", <<>>)
    /\ UNCHANGED <<header, dds, probe, lib, bpy>>

\* Faulty variant of PySlice: the slice always starts at the head of the list.
PySlice_first(list, a, b) == SubSeq(list, 1, Min(b - a, Len(list)))

\* list[a:b] of Python: the bounds are clipped to the list.
PySlice(list, a, b) == SubSeq(list, Min(a, Len(list)) + 1, Min(b, Len(list)))

\* Lines 525-532: the new_dds_num containers over header object h.
Disassembled(c, h, new_dds_num, num_slices) ==
    /\ Len(dds) + new_dds_num <= MaxDDS
    /\ header' = [header EXCEPT ![h] = disassemble(@)]
    /\ dds' = dds \o [i \in 1..new_dds_num |->
                [header |-> h,
                 slice_bin_list |-> PySlice(dds[c].slice_bin_list,
                                            (i - 1) * num_slices, i * num_slices)]]
    /\ Called("disassemble", "", <<c>>, FALSE, "", [i \in 1..new_dds_num |-> Len(dds) + i])

\* dds[c].get_disassembled_dds_list()
Disassemble(c) ==
    /\ ncalls < MaxCalls
    /\ Disassembled(c, dds[c].header,
                    header[dds[c].header].depth * get_array_size(header[dds[c].header]),
                    1 + 5 * Bit(is_cube(header[dds[c].header])))
    /\ UNCHANGED <<disk, probe, lib, bpy>>

\* Faulty variant of MismatchIn: the heights are not compared.
RECURSIVE MismatchIn_width_only(_, _, _)
MismatchIn_width_only(hs, h0, rest) ==
    IF rest = <<>> THEN ""
    ELSE IF hs[h0].dxgi_format # hs[dds[Head(rest)].header].dxgi_format
    THEN "FormatMismatch"
    ELSE IF hs[h0].width # hs[dds[Head(rest)].header].width
    THEN "SizeMismatch"
    ELSE MismatchIn_width_only(hs, h0, Tail(rest))

\* The error of the loop of DDS.assemble over dds_list[1:], read in the heap
\* hs that header.assemble has already changed ("" when the loop ends).
RECURSIVE MismatchIn(_, _, _)
MismatchIn(hs, h0, rest) ==
    IF rest = <<>> THEN ""
    ELSE IF hs[h0].dxgi_format # hs[dds[Head(rest)].header].dxgi_format
    THEN "FormatMismatch"
    ELSE IF \/ hs[h0].width # hs[dds[Head(rest)].header].width
            \/ hs[h0].height # hs[dds[Head(rest)].header].height
    THEN "SizeMismatch"
    ELSE MismatchIn(hs, h0, Tail(rest))

\* Lines 538-544 of assemble: hs the heap after header.assemble, err the
\* outcome of the loop.
Assembled(dds_list, as_array, h0, hs, err) ==
    /\ header' = hs
    /\ IF err # ""
       THEN /\ dds' = dds
            /\ Called("assemble", "", dds_list, as_array, err, <<>>)
       ELSE /\ dds' = Append(dds,
                  [header |-> h0,
                   slice_bin_list |->
                       Concat([i \in 1..Len(dds_list) |-> dds[dds_list[i]].slice_bin_list])])
            /\ Called("assemble", "", dds_list, as_array, "", <<Len(dds) + 1>>)

AssembleIn(dds_list, as_array, h0, hs) ==
    Assembled(dds_list, as_array, h0, hs, MismatchIn(hs, h0, Tail(dds_list)))

\* DDS.assemble(dds_list, is_array)
Assemble(dds_list, as_array) ==
    /\ ncalls < MaxCalls
    /\ Len(dds) < MaxDDS
    /\ AssembleIn(dds_list, as_array, dds[dds_list[1]].header,
                  [header EXCEPT ![dds[dds_list[1]].header] =
                      assemble(@, as_array, Len(dds_list))])
    /\ UNCHANGED <<disk, probe, lib, bpy>>

\* Faulty variant of RemoveMipsWith: the slices keep every mip level.
RemoveMipsWith_all_levels(head, slices, block, bpb) ==
    IF bpb.err # "" THEN [err |-> bpb.err, head |-> head, slices |-> slices]
    ELSE [err |-> "", head |-> [head EXCEPT !.mipmap_num = 1], slices |-> slices]

\* Lines 547-551 of remove_mips with the block size and the bytes per block.
RemoveMipsWith(head, slices, block, bpb) ==
    IF bpb.err # "" THEN [err |-> bpb.err, head |-> head, slices |-> slices]
    ELSE [err |-> "",
          head |-> [head EXCEPT !.mipmap_num = 1],
          slices |-> [i \in DOMAIN slices |->
                         PySlice(slices[i], 0,
                                 BinSize(head.width, head.height, block, bpb.value))]]

\* DDS.remove_mips on a container (head, slices): [err, head, slices].
remove_mips(head, slices) ==
    RemoveMipsWith(head, slices, get_block_size(head), get_byte_per_block(head))

MipsRemoved(c, r) ==
    /\ header' = [header EXCEPT ![dds[c].header] = r.head]
    /\ dds' = [dds EXCEPT ![c].slice_bin_list = r.slices]
    /\ Called("remove_mips", "", <<c>>, FALSE, r.err, <<>>)

\* dds[c].remove_mips()
RemoveMips(c) ==
    /\ ncalls < MaxCalls
    /\ MipsRemoved(c, remove_mips(header[dds[c].header], dds[c].slice_bin_list))
    /\ UNCHANGED <<disk, probe, lib, bpy>>

(***************************************************************************)
(* dds.py: decompress_astc and compress_astc.  The codec is the Astcenc    *)
(* object handed in: config_init, then one decompress_image or             *)
(* compress_image per mip level of each slice; fail says which of its      *)
(* calls raises (-1: config_init, n >= 1: the n-th image call, else none). *)
(***************************************************************************)
\* The bytes a codec call returns: n bytes whose values the model leaves open.
Coded(n) == [i \in 1..n |-> 0]

\* len(decompress_image(w, h, data)): size_x * size_y * size_z * 4.
\* len(compress_image(w, h, data)): calc_compressed_buffer_size.
CodedLen(decode, w, h, block) ==
    IF decode THEN w * h * 4
    ELSE CeilDiv(w, block[1]) * CeilDiv(h, block[2]) * 16

\* Faulty variant of CodecCall: the loop over the mip levels is the outer one.
CodecCall_levels_first(slices, sizes, n) ==
    [slice |-> ((n - 1) % Len(slices)) + 1,
     level |-> ((n - 1) \div Len(slices)) + 1,
     w |-> sizes[((n - 1) \div Len(slices)) + 1][1],
     h |-> sizes[((n - 1) \div Len(slices)) + 1][2],
     len |-> Len(PySlice(slices[((n - 1) % Len(slices)) + 1],
                         sizes[((n - 1) \div Len(slices)) + 1][3],
                         sizes[((n - 1) \div Len(slices)) + 1][3]
                             + sizes[((n - 1) \div Len(slices)) + 1][4]))]

\* The n-th image call of the loops: slice b of slices (outer loop), entry
\* (w, h, pos, size) of mipmap_sizes (inner loop), data b[pos: pos + size].
CodecCall(slices, sizes, n) ==
    [slice |-> ((n - 1) \div Len(sizes)) + 1,
     level |-> ((n - 1) % Len(sizes)) + 1,
     w |-> sizes[((n - 1) % Len(sizes)) + 1][1],
     h |-> sizes[((n - 1) % Len(sizes)) + 1][2],
     len |-> Len(PySlice(slices[((n - 1) \div Len(sizes)) + 1],
                         sizes[((n - 1) % Len(sizes)) + 1][3],
                         sizes[((n - 1) % Len(sizes)) + 1][3]
                             + sizes[((n - 1) % Len(sizes)) + 1][4]))]

\* new_slices: b''.join(new_mips) for every slice.
NewSlices(slices, sizes, block, decode) ==
    [i \in DOMAIN slices |->
        Concat([k \in DOMAIN sizes |->
                   Coded(CodedLen(decode, sizes[k][1], sizes[k][2], block))])]

\* The loop over the slices: [err, log, slices], log the image calls made.
CodecLoop(slices, sizes, block, decode, fail) ==
    IF fail \in 1..(Len(slices) * Len(sizes))
    THEN [err |-> "CodecFailure",
          log |-> [n \in 1..fail |-> CodecCall(slices, sizes, n)],
          slices |-> slices]
    ELSE [err |-> "",
          log |-> [n \in 1..(Len(slices) * Len(sizes)) |-> CodecCall(slices, sizes, n)],
          slices |-> NewSlices(slices, sizes, block, decode)]

\* DDSHeader.change_dxgi_format
change_dxgi_format(head, dxgi_format) ==
    update([head EXCEPT !.pixel_format = DDSPixelFormat, !.dxgi_format = dxgi_format],
           head.depth, get_array_size(head))

\* config_init and get_mip_sizes done (ms), then the loop (r) and the lines
\* after it: [err, head, slices, log].
AstcConverted(head, slices, ms, r, name) ==
    IF ms.err # "" THEN [err |-> ms.err, head |-> head, slices |-> slices, log |-> <<>>]
    ELSE IF r.err # "" THEN [err |-> r.err, head |-> head, slices |-> slices, log |-> r.log]
    ELSE IF ~is_valid_format(name)
    THEN [err |-> "KeyError", head |-> head, slices |-> r.slices, log |-> r.log]
    ELSE [err |-> "",
          head |-> change_dxgi_format(head,
                       (CHOOSE m \in DXGI_FORMAT : m.name = name).value),
          slices |-> r.slices, log |-> r.log]

AstcConvert(head, slices, block, decode, name, fail, ms) ==
    IF fail = -1
    THEN [err |-> "CodecFailure", head |-> head, slices |-> slices, log |-> <<>>]
    ELSE AstcConverted(head, slices, ms,
             IF ms.err # "" THEN ms
             ELSE CodecLoop(slices, ms.sizes, block, decode, fail),
             name)

\* DDS.decompress_astc(astcenc) on a container (head, slices).
decompress_astc(head, slices, fail) ==
    AstcConvert(head, slices, get_block_size(head), TRUE, NameOf(B8G8R8A8_UNORM), fail,
                get_mip_sizes(head))

\* DDS.compress_astc(astcenc, astc_fmt) on a container (head, slices).
compress_astc(head, slices, astc_fmt, fail) ==
    AstcConvert(head, slices, ParsedBlock[astc_fmt[2]], FALSE, astc_fmt, fail,
                get_mip_sizes(head))

\* The heap after a conversion of dds[c] returned or raised r.
AstcDone(op, c, r) ==
    /\ header' = [header EXCEPT ![dds[c].header] = r.head]
    /\ dds' = [dds EXCEPT ![c].slice_bin_list = r.slices]
    /\ lib' = [lib EXCEPT !.log = r.log]
    /\ Called(op, "", <<c>>, FALSE, r.err, <<>>)
    /\ UNCHANGED <<disk, probe, bpy>>

\* dds[c].decompress_astc(astcenc)
DecompressAstc(c, fail) ==
    /\ ncalls < MaxCalls
    /\ AstcDone("decompress_astc", c,
                decompress_astc(header[dds[c].header], dds[c].slice_bin_list, fail))

\* dds[c].compress_astc(astcenc, astc_fmt)
CompressAstc(c, astc_fmt, fail) ==
    /\ ncalls < MaxCalls
    /\ AstcDone("compress_astc", c,
                compress_astc(header[dds[c].header], dds[c].slice_bin_list, astc_fmt, fail))

\* The lists handed to assemble: the containers i..j of the heap, in order.
Ranges == {[k \in 1..(j - i + 1) |-> i + k - 1] : i \in 1..Len(dds), j \in 1..Len(dds)} \ {<<>>}

NoProbe ==
    [op |-> "none", magic |-> MAGIC, head_size |-> HEAD_SIZE, pf |-> DDSPixelFormat,
     dx10 |-> DX10Header, err |-> "", fmt |-> UNKNOWN, path |-> "none"]

\* The kinds of input file: a DX10 file of an uncompressed and of a block
\* compressed format, and a legacy file whose fourCC names a format.
FileKinds ==
    {<<"DX10", B8G8R8A8_UNORM>>, <<"DX10", BC1_UNORM>>,
     <<"DXT1", BC1_UNORM>>}

MipCounts == {0, 2}

Fresh ==
    /\ header = <<>>
    /\ dds = <<>>
    /\ call = NoCall
    /\ prev = NoCall
    /\ ncalls = 0
    /\ probe = NoProbe
    /\ lib = NoLib
    /\ bpy = NoBpy

\* The import session: one input file under path "a", of any slice layout.
Init ==
    /\ \E kind \in FileKinds, w \in Sizes, depth \in 0..MaxArray,
          array_size \in 0..MaxArray, cube \in BOOLEAN, mips \in MipCounts :
          \E n \in PayloadLens(Slices(depth, array_size, cube)) :
             disk = [p \in Paths |->
                        IF p = "a"
                        THEN MkFile(kind[1], kind[2], w, 1, depth, array_size, cube, mips, n)
                        ELSE <<>>]
    /\ Fresh

\* The export session: two single-surface input files, of any format and size.
InitAsm ==
    /\ \E ka \in FileKinds, wa \in Sizes, ha \in Sizes,
          kb \in FileKinds, wb \in Sizes, hb \in Sizes :
             disk = [p \in Paths |->
                        IF p = "a"
                        THEN MkFile(ka[1], ka[2], wa, ha, 1, 1, FALSE, 1, MaxSliceLen)
                        ELSE MkFile(kb[1], kb[2], wb, hb, 1, 1, FALSE, 1, MaxSliceLen)]
    /\ Fresh

MaxMips == 3       \* mipmap_num of an input file that holds its mip levels

\* The formats of the input files that hold their mip levels.
MipKinds == {B8G8R8A8_UNORM, BC1_UNORM, ASTC_4X4_UNORM}

\* The mip session: one DX10 input file under path "a", a 2D texture or an
\* array, whose slices hold every mip level.
InitMips ==
    /\ \E dxgi \in MipKinds, w \in Sizes, h \in Sizes, array_size \in 1..MaxArray,
          mips \in 1..MaxMips :
             disk = [p \in Paths |->
                        IF p = "a"
                        THEN MkFile("DX10", dxgi, w, h, 1, array_size, FALSE, mips,
                                    array_size * ChainSize(dxgi, w, h, mips))
                        ELSE <<>>]
    /\ Fresh

\* The heap after c.header.get_texture_type() returned t.
TextureTypeGot(c, t) ==
    /\ probe' = [op |-> "get_texture_type", c |-> c, head |-> header[dds[c].header],
                 type |-> t]
    /\ UNCHANGED <<disk, header, dds, call, prev, ncalls, lib, bpy>>

\* dds[c].header.get_texture_type()
GetTextureType(c) ==
    /\ probe.op = "none"
    /\ TextureTypeGot(c, get_texture_type(header[dds[c].header]))

Next ==
    \/ \E p \in Paths : Load(p)
    \/ \E c \in DOMAIN dds : Save(c, "a")
    \/ \E c \in DOMAIN dds : Disassemble(c)
    \/ \E l \in Ranges, as_array \in BOOLEAN : Assemble(l, as_array)
    \/ \E c \in DOMAIN dds : RemoveMips(c)

Spec == Init /\ [][Next]_vars

SpecAsm == InitAsm /\ [][Next]_vars

SpecMips == InitMips /\ [][Next]_vars

\* The import session in which the texture type of a container is asked for.
NextType ==
    \/ \E p \in Paths : Load(p)
    \/ \E c \in DOMAIN dds : Disassemble(c)
    \/ \E c \in DOMAIN dds : GetTextureType(c)

SpecType == Init /\ [][NextType]_vars

\* The header DDSHeader.read returns for a file of one 2D surface, with
\* the cubemap bits in caps, caps2 and misc_flags when cube.
FaceHeader(kind, w, h, cube) ==
    read(MkFile(kind[1], kind[2], w, h, 1, 1, cube, 1, 0)).head

\* The face session: six containers built with DDS(header, [face]), each
\* with a header object of its own and one slice, of equal format and size.
InitCube ==
    /\ \E kind \in FileKinds, w \in Sizes, h \in Sizes, cube \in BOOLEAN :
          /\ header = [i \in 1..6 |-> FaceHeader(kind, w, h, cube)]
          /\ dds = [i \in 1..6 |-> [header |-> i, slice_bin_list |-> <<Payload(MaxSliceLen)>>]]
    /\ disk = [p \in Paths |-> <<>>]
    /\ call = NoCall
    /\ prev = NoCall
    /\ ncalls = 0
    /\ probe = NoProbe
    /\ lib = NoLib
    /\ bpy = NoBpy

NextCube ==
    \/ \E as_array \in BOOLEAN : Assemble([i \in 1..Len(dds) |-> i], as_array)
    \/ \E c \in DOMAIN dds : Disassemble(c)

SpecCube == InitCube /\ [][NextCube]_vars

MaxFail == 3       \* the image call of a conversion that raises: 1..MaxFail

\* The conversion session of a file that holds its mip levels.  The names
\* handed to compress_astc: a format of the catalog and a block size the
\* catalog does not hold.
NextAstc ==
    \/ \E p \in Paths : Load(p)
    \/ \E c \in DOMAIN dds : RemoveMips(c)
    \/ \E c \in DOMAIN dds, fail \in -1..MaxFail : DecompressAstc(c, fail)
    \/ \E c \in DOMAIN dds, n \in {NameOf(ASTC_4X4_UNORM), <<"ASTC", "6X6", "UNORM">>},
          fail \in -1..MaxFail : CompressAstc(c, n, fail)

SpecAstc == InitMips /\ [][NextAstc]_vars

(***************************************************************************)
(* The header specification: one call of DDSHeader.read on a header of any *)
(* content, or of DDSPixelFormat.get_dxgi on a pixel format of any content. *)
(***************************************************************************)
\* The fourCC values tried: every code of FOURCC_TO_DXGI, every uncanonical
\* code, the DX10 sentinel, the empty fourCC and a code that no table holds.
FourCCs ==
    UNION {FOURCC_TO_DXGI[i][1] : i \in DOMAIN FOURCC_TO_DXGI}
        \cup UNCANONICAL_FOURCC \cup {"DX10", "", "ABCD"}

\* The bit masks tried: every entry of BITMASK_TO_DXGI, all zero, and four
\* masks that equal no entry.
UNMATCHED_MASK == <<"000000ff", "000000ff", "000000ff", "000000ff">>
BitMasks ==
    {BITMASK_TO_DXGI[i][1] : i \in DOMAIN BITMASK_TO_DXGI} \cup {ZERO_MASK, UNMATCHED_MASK}

\* The pixel format flags tried: none, RGB (0x40), FOURCC, BUMPDUDV, FOURCC | BUMPDUDV.
PFFlags ==
    {0, 64, PF_FLAGS_FOURCC, PF_FLAGS_BUMPDUDV,
     BitOr(PF_FLAGS_FOURCC, PF_FLAGS_BUMPDUDV)}

PFSizes == {PF_SIZE, 0}
Magics == {MAGIC, "RIFF"}
HeadSizes == {HEAD_SIZE, 0}

\* The DX10 headers tried: a format of the catalog or a value outside it, as
\* a 1D or a 2D resource.

DX10Headers ==
    {[DX10Header EXCEPT !.dxgi_format = f, !.resource_dimension = d, !.array_size = 1] :
        f \in {B8G8R8A8_UNORM, BC1_UNORM, 116}, d \in {2, 3}}

\* The cells of a 1x1 header with the given fields.
HeaderFile(magic, head_size, pf, dx10) ==
    write([DDSHeader EXCEPT
              !.magic = magic, !.head_size = head_size,
              !.flags = DDS_FLAGS_DEFAULT, !.height = 1, !.width = 1,
              !.pitch_or_linear_size = 4, !.depth = 1,
              !.pixel_format = pf, !.caps = DDS_CAPS_REQUIRED,
              !.dx10_header = dx10])

Probed(op, magic, head_size, pf, dx10, err, fmt, path) ==
    /\ probe' = [op |-> op, magic |-> magic, head_size |-> head_size, pf |-> pf,
                 dx10 |-> dx10, err |-> err, fmt |-> fmt, path |-> path]
    /\ UNCHANGED <<disk, header, dds, call, prev, ncalls, lib, bpy>>

ReadProbed(magic, head_size, pf, dx10, r) ==
    Probed("read", magic, head_size, pf, dx10, r.err,
           IF r.err = "" THEN r.head.dxgi_format ELSE UNKNOWN, "none")

\* DDSHeader.read(f) on the header (magic, head_size, pf, dx10).
ProbeRead(magic, head_size, pf, dx10) ==
    /\ probe.op = "none"
    /\ ReadProbed(magic, head_size, pf, dx10, read(HeaderFile(magic, head_size, pf, dx10)))

GetDxgiProbed(pf, r) ==
    Probed("get_dxgi", MAGIC, HEAD_SIZE, pf, DX10Header, r.err, r.fmt, r.path)

\* pf.get_dxgi()
ProbeGetDxgi(pf) ==
    /\ probe.op = "none"
    /\ GetDxgiProbed(pf, PixelFormat_get_dxgi(pf))

InitRead ==
    /\ disk = [p \in Paths |-> <<>>]
    /\ Fresh

\* The masks of the header files: DDSHeader.read hands them to get_dxgi
\* unchanged, so three of them suffice there.
ReadMasks == {ZERO_MASK, UNMATCHED_MASK, BITMASK_TO_DXGI[1][1]}

NextRead ==
    \/ \E magic \in Magics, head_size \in HeadSizes, size \in PFSizes, flags \in PFFlags,
          fourCC \in FourCCs \ {"DX10"}, bit_mask \in ReadMasks :
          ProbeRead(magic, head_size,
                    [size |-> size, flags |-> flags, fourCC |-> fourCC,
                     bit_mask |-> bit_mask],
                    DX10Header)
    \/ \E magic \in Magics, head_size \in HeadSizes, dx10 \in DX10Headers :
          ProbeRead(magic, head_size, DDSPixelFormat, dx10)
    \/ \E size \in PFSizes, flags \in PFFlags, fourCC \in FourCCs, bit_mask \in BitMasks :
          ProbeGetDxgi([size |-> size, flags |-> flags, fourCC |-> fourCC,
                        bit_mask |-> bit_mask])

SpecRead == InitRead /\ [][NextRead]_vars

(***************************************************************************)
(* The layout specification: one call of get_mip_sizes on a header of any  *)
(* format of the catalog.                                                  *)
(***************************************************************************)
\* The widths and heights tried.
LayoutDims == 1..(MaxDim + 1) \cup {64}

LayoutHeader(fmt, w, h, mips) ==
    [DDSHeader EXCEPT !.dxgi_format = fmt, !.width = w, !.height = h, !.mipmap_num = mips]

MipSizesProbed(head, r) ==
    /\ probe' = [op |-> "get_mip_sizes", head |-> head, err |-> r.err, sizes |-> r.sizes]
    /\ UNCHANGED <<disk, header, dds, call, prev, ncalls, lib, bpy>>

\* head.get_mip_sizes()
ProbeMipSizes(head) ==
    /\ probe.op = "none"
    /\ MipSizesProbed(head, get_mip_sizes(head))

NextLayout ==
    \E fmt \in DXGI_VALUES, w \in LayoutDims, h \in LayoutDims, mips \in 1..MaxMips :
        ProbeMipSizes(LayoutHeader(fmt, w, h, mips))

SpecLayout == InitRead /\ [][NextLayout]_vars


(***************************************************************************)
(* ui/import_dds.py: the import of several files                           *)
(***************************************************************************)
\* The error load_dds(file) raises, "" when it returns a texture: the header
\* is read, and a volume or an array is loaded and disassembled.  The
\* conversion of the surfaces by texconv is taken to succeed.
LoadDdsError(file, r) ==
    IF r.err # "" THEN r.err
    ELSE IF is_3d(r.head) \/ is_array(r.head) THEN load(file).err
    ELSE ""

\* The loop over the files of execute_base, import_dds_rec and the drag and
\* drop operator: import_dds on each file in turn; err the error that left
\* the loop.
RECURSIVE ImportLoop(_, _)
ImportLoop(files, images) ==
    IF files = <<>> THEN [err |-> "", images |-> images]
    ELSE IF LoadDdsError(disk[Head(files)], read(disk[Head(files)])) # ""
    THEN [err |-> LoadDdsError(disk[Head(files)], read(disk[Head(files)])),
          images |-> images]
    ELSE ImportLoop(Tail(files), Append(images, Head(files)))

\* The state after the operator: the except clauses report the error and
\* return CANCELLED.
Imported(files, r) ==
    /\ bpy' = [bpy EXCEPT !.op = "import", !.files = files, !.images = r.images,
                          !.err = r.err,
                          !.ret = IF r.err = "" THEN "FINISHED" ELSE "CANCELLED"]
    /\ UNCHANGED <<disk, header, dds, call, prev, ncalls, probe, lib>>

\* DDS_OT_import_base.execute_base(files) with the selected files.
ExecuteBase(files) ==
    /\ bpy.op = "none"
    /\ Imported(files, ImportLoop(files, bpy.images))

\* The files of the folder: each a file of one surface, a volume, or a file
\* that is no DDS file.
InitBatch ==
    /\ disk \in [Paths ->
          {MkFile(k[1], k[2], w, 1, depth, 1, FALSE, 1, MaxSliceLen * Max(depth, 1)) :
              k \in FileKinds, w \in Sizes, depth \in 0..MaxArray}
          \cup {HeaderFile("RIFF", HEAD_SIZE, DDSPixelFormat, DX10Header)}]
    /\ Fresh

\* The selections: the files of the folder in either order.
NextBatch ==
    \E files \in {<<"a", "b">>, <<"b", "a">>} : ExecuteBase(files)

SpecBatch == InitBatch /\ [][NextBatch]_vars

(***************************************************************************)
(* texconv.py and astcenc.py: the library cache                            *)
(***************************************************************************)
MaxInst == 2       \* instances of Texconv and of Astcenc
MaxLibCalls == 4   \* calls of one library session

\* The state after the call op left the libraries as L.
LibDone(op, l, L) ==
    /\ lib.n < MaxLibCalls
    /\ lib' = [L EXCEPT !.op = op, !.of = l, !.n = @ + 1]
    /\ UNCHANGED <<disk, header, dds, call, prev, ncalls, probe, bpy>>

InitLib ==
    /\ disk = [p \in Paths |-> <<>>]
    /\ header = <<>> /\ dds = <<>> /\ call = NoCall /\ prev = NoCall /\ ncalls = 0
    /\ probe = NoProbe /\ bpy = NoBpy
    /\ \E os \in {"Windows", "Linux", "Darwin"}, found \in BOOLEAN :
          lib = [NoLib EXCEPT !.os = os, !.dlclose = found]

NextLib ==
    \/ \E l \in Libs : Len(lib.dll[l]) < MaxInst /\ LibDone("new", l, load_dll(lib, l))
    \/ \E l \in Libs : LibDone("unload", l, unload(lib, l))
    \/ \E l \in Libs : \E i \in DOMAIN lib.dll[l] :
          LibDone("unload_dll", l, unload_dll(lib, l, i))
    \/ \E l \in Libs : \E i \in DOMAIN lib.dll[l] :
          LibDone("call_dll", l, call_dll(lib, l, i))
    \/ \E i \in DOMAIN lib.dll["astcenc"], error \in {"", "alloc", "image", "reset"} :
          LibDone("compress_image", "astcenc", compress_image(lib, i, error))

SpecLib == InitLib /\ [][NextLib]_vars

(***************************************************************************)
(* ui/texture_list.py: the operators of the texture list.  list_index      *)
(* holds the integer assigned to it; remove and move of the collection     *)
(* leave it as it is when an index is out of range.                        *)
(***************************************************************************)
MaxItems == 5      \* items made by add() in one session

\* DDS_OT_list_new_item.execute
new_item(B) == [B EXCEPT !.texture_list = Append(@, B.made + 1), !.made = @ + 1]

\* texture_list.remove(index)
Removed(list, index) ==
    IF index \in 0..(Len(list) - 1)
    THEN SubSeq(list, 1, index) \o SubSeq(list, index + 2, Len(list))
    ELSE list

\* Line 79, list the collection after the remove.
Deleted(B, list) ==
    [B EXCEPT !.texture_list = list,
              !.list_index = Min(Max(0, B.list_index - 1), Len(list) - 1)]

\* DDS_OT_list_delete_item.execute
delete_item(B) == Deleted(B, Removed(B.texture_list, B.list_index))

\* texture_list.move(neighbor, index)
Moved(list, neighbor, index) ==
    IF neighbor \in 0..(Len(list) - 1) /\ index \in 0..(Len(list) - 1)
    THEN [list EXCEPT ![neighbor + 1] = list[index + 1], ![index + 1] = list[neighbor + 1]]
    ELSE list

\* DDS_OT_list_move_item.execute and move_index, d = -1 for UP and 1 for DOWN.
move_item(B, d) ==
    [B EXCEPT !.texture_list = Moved(@, B.list_index + d, B.list_index),
              !.list_index = Max(0, Min(B.list_index + d, Len(B.texture_list) - 1))]

\* The state after the operator op left the properties as B.
ListDone(op, B) ==
    /\ bpy' = [B EXCEPT !.op = op]
    /\ UNCHANGED <<disk, header, dds, call, prev, ncalls, probe, lib>>

\* The operators of the panel; delete and move are polled on a list that is
\* not empty.
NextList ==
    \/ bpy.made < MaxItems /\ ListDone("new_item", new_item(bpy))
    \/ bpy.texture_list # <<>> /\ ListDone("delete_item", delete_item(bpy))
    \/ \E d \in {-1, 1} : bpy.texture_list # <<>> /\ ListDone("move_item", move_item(bpy, d))

SpecList == InitRead /\ [][NextList]_vars
(***************************************************************************)
(* Properties                                                              *)
(***************************************************************************)
\* A container that keeps the invariant of the data model: as many slices
\* as its header counts, all of one length.
Valid(head, slices) ==
    /\ Len(slices) = get_num_slices(head)
    /\ \A i, j \in DOMAIN slices : Len(slices[i]) = Len(slices[j])

\* Container c of the heap (hs, ds), in the shape of a result of load.
Container(hs, ds, c) ==
    [err |-> "", head |-> hs[ds[c].header], slices |-> ds[c].slice_bin_list]

\* r is a successful load of a container equal to (head, slices) in the
\* resolved format, the dimensions, the array size, the cube flag, the mip
\* count and the slices.
SameContainer(head, slices, r) ==
    /\ r.err = ""
    /\ r.head.dxgi_format = head.dxgi_format
    /\ r.head.width = head.width
    /\ r.head.height = head.height
    /\ r.head.depth = head.depth
    /\ get_array_size(r.head) = get_array_size(head)
    /\ is_cube(r.head) = is_cube(head)
    /\ r.head.mipmap_num = head.mipmap_num
    /\ r.slices = slices

RoundTrips(c) ==
    Valid(c.head, c.slices) => SameContainer(c.head, c.slices, load(save(c.head, c.slices)))

SavedThenLoaded ==
    /\ call.op = "load"
    /\ prev.op = "save"
    /\ call.path = prev.path
    /\ Valid(prev.header0[prev.dds0[prev.args[1]].header],
             prev.dds0[prev.args[1]].slice_bin_list)

\* C1: for every valid container c, DDS.load of the file written by c.save
\* yields a container with the same resolved DXGI format, width, height,
\* depth, array size, cube flag and mip count, and the same slices in the
\* same order.  Stated for every container of the heap, and for every load
\* that follows a save to the same path.
C1_RoundTrip ==
    /\ \A c \in DOMAIN dds : RoundTrips(Container(header, dds, c))
    /\ SavedThenLoaded =>
          /\ call.err = ""
          /\ SameContainer(prev.header0[prev.dds0[prev.args[1]].header],
                           prev.dds0[prev.args[1]].slice_bin_list,
                           Container(header, dds, Len(dds)))

\* A container of two or more slices was saved and loaded again.
C1_Witness ==
    /\ SavedThenLoaded
    /\ call.err = ""
    /\ Len(prev.dds0[prev.args[1]].slice_bin_list) > 1
    /\ is_dx10(prev.header0[prev.dds0[prev.args[1]].header].pixel_format)

\* The position of the first payload byte of a file with header head.
DataStart(head) ==
    IF head.pixel_format.fourCC = "DX10" THEN HeaderLen + DX10Len ELSE HeaderLen

LoadedLayout(file, head, slices) ==
    /\ Len(slices) =
          head.dx10_header.array_size * head.depth
              * (IF BitAnd(head.caps2, DDS_CAPS2_CUBEMAP) # 0 THEN 6 ELSE 1)
    /\ slices[1] = SubSeq(file, DataStart(head) + 1, DataStart(head) + Len(slices[1]))

\* C2: every container returned by a successful DDS.load has exactly
\* array_size * depth * (6 if the caps2 cubemap bit is set, else 1) slices,
\* and its first slice starts at the first byte after the header (and the
\* DX10 header when present).
C2_SliceCount ==
    (call.op = "load" /\ call.err = "") =>
        LoadedLayout(disk[call.path], header[dds[Len(dds)].header],
                     dds[Len(dds)].slice_bin_list)

\* A DX10 cube map array was loaded: twelve slices of one byte or more.
C2_Witness ==
    /\ call.op = "load"
    /\ call.err = ""
    /\ is_cube(header[dds[Len(dds)].header])
    /\ is_dx10(header[dds[Len(dds)].header].pixel_format)
    /\ Len(dds[Len(dds)].slice_bin_list) = 12
    /\ dds[Len(dds)].slice_bin_list[1] # <<>>

\* The last call assembled, as an array, the list that the call before it
\* disassembled from a valid non-cube, non-volume container of n > 1 layers.
Reassembling(head, slices) ==
    /\ call.op = "assemble"
    /\ call.is_array
    /\ prev.op = "disassemble"
    /\ call.args = prev.out
    /\ Valid(head, slices)
    /\ ~is_cube(head)
    /\ head.depth = 1
    /\ get_array_size(head) > 1

Restored(head, slices) ==
    /\ call.err = ""
    /\ dds[Len(dds)].slice_bin_list = slices
    /\ get_array_size(header[dds[Len(dds)].header]) = get_array_size(head)
    /\ header[dds[Len(dds)].header].depth = 1

\* C3: for a non-cube, non-volume container c with array_size = N > 1,
\* DDS.assemble(c.get_disassembled_dds_list(), is_array=True) returns a
\* container whose slice list equals the original slice list of c in the
\* original order and whose header has array size N and depth 1.
C3_Inverse ==
    Reassembling(prev.header0[prev.dds0[prev.args[1]].header],
                 prev.dds0[prev.args[1]].slice_bin_list)
        => Restored(prev.header0[prev.dds0[prev.args[1]].header],
                    prev.dds0[prev.args[1]].slice_bin_list)

\* A texture array of a block compressed format was split and put together.
C3_Witness ==
    /\ prev.op = "disassemble"
    /\ Reassembling(prev.header0[prev.dds0[prev.args[1]].header],
                    prev.dds0[prev.args[1]].slice_bin_list)
    /\ call.err = ""
    /\ Len(dds[Len(dds)].slice_bin_list) > 1
    /\ header[dds[Len(dds)].header].dxgi_format = BC1_UNORM

\* The outputs out of get_disassembled_dds_list for the container
\* (head, slices), k slices per output.
SplitInto(head, slices, out, k) ==
    /\ Len(out) = get_array_size(head) * head.depth
    /\ \A i \in DOMAIN out :
          /\ dds[out[i]].slice_bin_list = SubSeq(slices, (i - 1) * k + 1, i * k)
          /\ Len(dds[out[i]].slice_bin_list) = k
          /\ get_array_size(header[dds[out[i]].header]) = 1
          /\ header[dds[out[i]].header].depth = 1
    /\ Concat([i \in DOMAIN out |-> dds[out[i]].slice_bin_list]) = slices

Split(head, slices) ==
    Valid(head, slices) =>
        SplitInto(head, slices, call.out,
                  IF BitAnd(head.caps2, DDS_CAPS2_CUBEMAP) # 0 THEN 6 ELSE 1)

\* C4: get_disassembled_dds_list on a container with array size A and depth
\* D returns exactly A*D containers; output i holds the original slices
\* [i*k, (i+1)*k) in the original order, k = 6 for a cube map and 1
\* otherwise; every output header has array_size 1 and depth 1; no slice is
\* lost, duplicated or reordered.
C4_Disassemble ==
    call.op = "disassemble" =>
        Split(call.header0[call.dds0[call.args[1]].header],
              call.dds0[call.args[1]].slice_bin_list)

\* A cube map array of two cubes was split into two containers of six faces.
C4_Witness ==
    /\ call.op = "disassemble"
    /\ Valid(call.header0[call.dds0[call.args[1]].header],
             call.dds0[call.args[1]].slice_bin_list)
    /\ is_cube(call.header0[call.dds0[call.args[1]].header])
    /\ Len(call.out) = 2
    /\ Len(dds[call.out[2]].slice_bin_list) = 6

\* Some input of the last call of assemble differs from the first one in
\* the field f of its header, in the heap before the call.
InputDiffers(f(_)) ==
    \E i \in DOMAIN call.args :
        f(call.header0[call.dds0[call.args[i]].header])
            # f(call.header0[call.dds0[call.args[1]].header])

FormatOf(head) == head.dxgi_format
SizeOf(head) == <<head.width, head.height>>

\* C5: DDS.assemble fails with an error and returns no container whenever
\* the resolved DXGI format of some input differs from that of the first
\* input, or the width or height of some input differs from that of the
\* first input.
C5_Mismatch ==
    (call.op = "assemble" /\ (InputDiffers(FormatOf) \/ InputDiffers(SizeOf))) =>
        /\ call.err \in {"FormatMismatch", "SizeMismatch"}
        /\ call.out = <<>>
        /\ dds = call.dds0

\* Two textures of one format and one width but of different heights were
\* handed to assemble.
C5_Witness ==
    /\ call.op = "assemble"
    /\ ~InputDiffers(FormatOf)
    /\ InputDiffers(SizeOf)
    /\ call.header0[call.dds0[call.args[1]].header].width
         = call.header0[call.dds0[call.args[2]].header].width
    /\ call.err = "SizeMismatch"

\* The payload of file does not divide into the slices of the header read.
Uneven(file, r) ==
    /\ r.err = ""
    /\ get_num_slices(r.head) > 0
    /\ (Len(file) - r.tell) % get_num_slices(r.head) # 0

\* C6: DDS.load fails whenever the number of bytes after the header is not
\* an exact multiple of the slice count of the header; it never partitions
\* the payload by rounding down and dropping the trailing bytes.
C6_CorruptPayload ==
    (call.op = "load" /\ Uneven(disk[call.path], read(disk[call.path]))) =>
        call.err # ""

\* C7: DDSHeader.read on a header whose magic is not "DDS " or whose size
\* field is not 124 fails with the not-a-DDS error, whatever the pixel
\* format and the DX10 header hold.
C7_NotDDSFirst ==
    (probe.op = "read" /\ (probe.magic # "DDS " \/ probe.head_size # 124)) =>
        probe.err = "NotDDS"

\* C8: for every header without the DX10 sentinel whose fourCC is in the
\* uncanonical set, DDSHeader.read fails with the non-standard fourCC error,
\* whatever the pixel format flags and the bit masks are; no format is
\* resolved.
C8_Uncanonical ==
    (/\ probe.op = "read"
     /\ probe.pf.fourCC \in {"ETC", "ETC1", "ETC2", "ET2A", "PTC2", "PTC4",
                             "ATC", "ATCA", "ATCE", "ATCI", "AS:5"}) =>
        /\ probe.err = "NonStandardFourCC"
        /\ probe.fmt = UNKNOWN

\* A header with a good magic, fourCC "ETC1", the FOURCC flag clear and the
\* bit masks of B8G8R8A8_UNORM was read.
C8_Witness ==
    /\ probe.op = "read"
    /\ probe.magic = MAGIC
    /\ probe.head_size = HEAD_SIZE
    /\ probe.pf.fourCC = "ETC1"
    /\ BitAnd(probe.pf.flags, PF_FLAGS_FOURCC) = 0
    /\ probe.pf.bit_mask = BITMASK_TO_DXGI[1][1]
    /\ probe.err = "NonStandardFourCC"

\* The tables as the properties read them.
KnownFourCC(pf) == \E i \in DOMAIN FOURCC_TO_DXGI : pf.fourCC \in FOURCC_TO_DXGI[i][1]
FourCCFormats(pf) ==
    {FOURCC_TO_DXGI[i][2] : i \in {j \in DOMAIN FOURCC_TO_DXGI : pf.fourCC \in FOURCC_TO_DXGI[j][1]}}
KnownMasks(pf) == \E i \in DOMAIN BITMASK_TO_DXGI : pf.bit_mask = BITMASK_TO_DXGI[i][1]
MaskFormats(pf) ==
    {BITMASK_TO_DXGI[i][2] : i \in {j \in DOMAIN BITMASK_TO_DXGI : pf.bit_mask = BITMASK_TO_DXGI[j][1]}}

\* The last call was get_dxgi on a legacy pixel format of a canonical fourCC.
LegacyResolved ==
    /\ probe.op = "get_dxgi"
    /\ probe.pf.fourCC # "DX10"
    /\ probe.pf.fourCC \notin UNCANONICAL_FOURCC

\* The priority FourCC > bit masks > fallback, the FourCC table deciding
\* when fourcc_decides holds.
Priority(fourcc_decides) ==
    /\ fourcc_decides =>
          /\ probe.err = ""
          /\ probe.path = "fourcc"
          /\ probe.fmt \in FourCCFormats(probe.pf)
    /\ probe.path = "bitmask" =>
          /\ ~fourcc_decides
          /\ KnownMasks(probe.pf)
          /\ probe.err = "" => probe.fmt \in MaskFormats(probe.pf)
    /\ probe.path = "fallback" =>
          /\ ~fourcc_decides
          /\ ~KnownMasks(probe.pf)
          /\ probe.err = ""
          /\ probe.fmt = B8G8R8A8_UNORM

\* C9 as stated: when the fourCC equals one of the known codes the resolved
\* format is the format of that code, even if the four bit masks equal an
\* entry of the bit mask table; a bit mask entry decides only when no
\* fourCC code matches; the fallback B8G8R8A8_UNORM is returned only when
\* neither matches.
C9_FourCCFirst ==
    LegacyResolved => Priority(KnownFourCC(probe.pf))

\* C9 as the code has it: the fourCC table is consulted only when the
\* FOURCC flag of the pixel format is set.  With the flag set and a known
\* fourCC, the format of the code is resolved even if the bit masks equal
\* an entry; a bit mask entry decides only when the flag is clear or no
\* code matches; the fallback B8G8R8A8_UNORM is returned only when the bit
\* masks equal no entry and the flag is clear or no code matches.
C9_FlaggedFourCCFirst ==
    LegacyResolved =>
        Priority(BitAnd(probe.pf.flags, PF_FLAGS_FOURCC) # 0 /\ KnownFourCC(probe.pf))

\* fourCC "DXT1" with the FOURCC flag and the bit masks of B8G8R8A8_UNORM
\* resolved to BC1_UNORM.
C9_Witness ==
    /\ LegacyResolved
    /\ probe.pf.fourCC = "DXT1"
    /\ BitAnd(probe.pf.flags, PF_FLAGS_FOURCC) # 0
    /\ probe.pf.bit_mask = BITMASK_TO_DXGI[1][1]
    /\ probe.fmt = BC1_UNORM

SameResult(r) == r.err = probe.err /\ r.fmt = probe.fmt /\ r.path = probe.path

\* The last call was get_dxgi on a pixel format whose bit masks equal no
\* entry of the bit mask table and whose fourCC is neither a code of the
\* fourCC table nor an uncanonical code.
Unmatched ==
    /\ probe.op = "get_dxgi"
    /\ ~KnownMasks(probe.pf)
    /\ ~KnownFourCC(probe.pf)
    /\ probe.pf.fourCC \notin UNCANONICAL_FOURCC

\* C10: format resolution is a function of the flags, the fourCC and the
\* bit masks (the size field of the pixel format does not change it), and
\* for every pixel format whose bit masks are all zero or equal no entry of
\* the bit mask table and whose fourCC matches no known code it returns
\* B8G8R8A8_UNORM without raising, for every value of the flags, the
\* bump/dudv flag included.
C10_Fallback ==
    /\ probe.op = "get_dxgi" =>
          SameResult(PixelFormat_get_dxgi([probe.pf EXCEPT !.size = PF_SIZE]))
    /\ Unmatched => (probe.err = "" /\ probe.fmt = B8G8R8A8_UNORM)

\* A pixel format with the BUMPDUDV flag and bit masks of no entry resolved
\* to B8G8R8A8_UNORM.
C10_Witness ==
    /\ Unmatched
    /\ BitAnd(probe.pf.flags, PF_FLAGS_BUMPDUDV) # 0
    /\ probe.pf.bit_mask = UNMATCHED_MASK
    /\ probe.fmt = B8G8R8A8_UNORM
    /\ probe.err = ""

\* The format named like fmt with a trailing UNORM replaced by SNORM and a
\* trailing UINT by SINT when the catalog holds a format of that name, and
\* fmt otherwise.
SignedNames(name) ==
    IF name[Len(name)] = "UNORM" THEN {[name EXCEPT ![Len(name)] = "SNORM"]}
    ELSE IF name[Len(name)] = "UINT" THEN {[name EXCEPT ![Len(name)] = "SINT"]}
    ELSE {}

SignedCounterpart(fmt) ==
    IF \E m \in DXGI_FORMAT : m.name \in SignedNames(NameOf(fmt))
    THEN (CHOOSE m \in DXGI_FORMAT : m.name \in SignedNames(NameOf(fmt))).value
    ELSE fmt

\* C11: when the bump/dudv flag is set and the format was resolved from the
\* bit mask table, the result is the signed counterpart of that format when
\* the catalog holds one and the bit mask format unchanged otherwise; the
\* conversion never raises.
C11_SignedCounterpart ==
    (/\ probe.op = "get_dxgi"
     /\ BitAnd(probe.pf.flags, PF_FLAGS_BUMPDUDV) # 0
     /\ probe.path = "bitmask") =>
        /\ probe.err = ""
        /\ probe.fmt \in {SignedCounterpart(f) : f \in MaskFormats(probe.pf)}

\* ceil(a / b), as the properties read it.
Ceil(a, b) == IF a % b = 0 THEN a \div b ELSE a \div b + 1

\* The entries of get_mip_sizes follow the layout rule for a header head
\* with blocks of block pixels and bpb bytes.
LaidOut(head, sizes, block, bpb) ==
    /\ Len(sizes) = head.mipmap_num
    /\ sizes[1][1] = head.width
    /\ sizes[1][2] = head.height
    /\ sizes[1][3] = 0
    /\ \A i \in DOMAIN sizes :
          sizes[i][4] = Ceil(sizes[i][1], block[1]) * Ceil(sizes[i][2], block[2]) * bpb
    /\ \A i \in 1..(Len(sizes) - 1) :
          /\ sizes[i + 1][1] = (IF sizes[i][1] \div 2 >= 1 THEN sizes[i][1] \div 2 ELSE 1)
          /\ sizes[i + 1][2] = (IF sizes[i][2] \div 2 >= 1 THEN sizes[i][2] \div 2 ELSE 1)
          /\ sizes[i + 1][3] = sizes[i][3] + sizes[i][4]

\* The last call was get_mip_sizes on a header whose format the layout
\* calculator supports.
SupportedLayout ==
    /\ probe.op = "get_mip_sizes"
    /\ get_byte_per_block(probe.head).err = ""

\* C12: for every header whose format the layout calculator supports,
\* get_mip_sizes returns exactly mipmap_num entries [width, height, offset,
\* size]; entry 0 has the width and height of the header, each further
\* entry half the width and height of the one before (at least 1), size =
\* ceil(width / block_w) * ceil(height / block_h) * bytes_per_block,
\* offset_0 = 0 and offset_{i+1} = offset_i + size_i; a second call on the
\* same header returns the same list.
C12_MipSizes ==
    SupportedLayout =>
        /\ probe.err = ""
        /\ LaidOut(probe.head, probe.sizes, get_block_size(probe.head),
                   get_byte_per_block(probe.head).value)
        /\ get_mip_sizes(probe.head).sizes = probe.sizes

\* Three levels of a 5x3 ASTC 4x4 header were laid out: 2x1, 1x1 and 1x1
\* blocks of 16 bytes.
C12_Witness ==
    /\ SupportedLayout
    /\ probe.head.dxgi_format = ASTC_4X4_UNORM
    /\ probe.sizes = << <<5, 3, 0, 32>>, <<2, 1, 32, 16>>, <<1, 1, 48, 16>> >>

\* C13: the layout calculator yields a mip layout for every format of the
\* catalog; for a block compressed BCn header it uses 4x4 blocks, so that a
\* 64x64 BC1_UNORM header has a level 0 of ceil(64/4) * ceil(64/4) * 8 =
\* 2048 bytes.  Stated for the BCn formats of the catalog.
C13_EveryFormat ==
    (probe.op = "get_mip_sizes" /\ HasBC(NameOf(probe.head.dxgi_format))) =>
        /\ probe.err = ""
        /\ Len(probe.sizes) = probe.head.mipmap_num
        /\ (probe.head.dxgi_format = BC1_UNORM /\ probe.head.width = 64
               /\ probe.head.height = 64) => probe.sizes[1][4] = 2048

\* The level-0 size of the layout calculator for the header head.
Level0Size(head) ==
    Ceil(head.width, get_block_size(head)[1]) * Ceil(head.height, get_block_size(head)[2])
        * get_byte_per_block(head).value

\* After is the container (head, slices) without its mips: every slice cut
\* to its first size bytes, mip count 1, number and order of slices kept.
WithoutMips(head, slices, after, size) ==
    /\ after.head.mipmap_num = 1
    /\ after.head = [head EXCEPT !.mipmap_num = 1]
    /\ Len(after.slices) = Len(slices)
    /\ \A i \in DOMAIN slices :
          after.slices[i] = SubSeq(slices[i], 1, Min(size, Len(slices[i])))

\* The last call was remove_mips and it returned.
MipsWereRemoved == call.op = "remove_mips" /\ call.err = ""

\* C14: remove_mips replaces every slice by its first S bytes, S =
\* ceil(width / block_w) * ceil(height / block_h) * bytes_per_block the
\* level-0 size of the layout calculator, sets the mip count to 1, keeps the
\* number and the order of the slices, and a second remove_mips changes
\* nothing.  Where the layout calculator knows no bytes per block for the
\* format, remove_mips raises and changes nothing.
C14_RemoveMips ==
    /\ MipsWereRemoved =>
          /\ WithoutMips(call.header0[call.dds0[call.args[1]].header],
                         call.dds0[call.args[1]].slice_bin_list,
                         Container(header, dds, call.args[1]),
                         Level0Size(call.header0[call.dds0[call.args[1]].header]))
          /\ remove_mips(header[dds[call.args[1]].header],
                         dds[call.args[1]].slice_bin_list)
               = Container(header, dds, call.args[1])
    /\ (call.op = "remove_mips" /\ call.err # "") =>
          (header = call.header0 /\ dds = call.dds0)

\* The mips of an array of two 4x4 ASTC textures with three mip levels (48
\* bytes per slice) were removed: 16 bytes per slice are left.
C14_Witness ==
    /\ MipsWereRemoved
    /\ call.header0[call.dds0[call.args[1]].header].dxgi_format = ASTC_4X4_UNORM
    /\ call.header0[call.dds0[call.args[1]].header].mipmap_num = 3
    /\ Len(call.dds0[call.args[1]].slice_bin_list) = 2
    /\ Len(call.dds0[call.args[1]].slice_bin_list[2]) = 48
    /\ Len(dds[call.args[1]].slice_bin_list[2]) = 16

\* The byte size of the largest mip of a compressed header, and width times
\* the bytes per pixel of an uncompressed one.
DerivedPitch(head) ==
    IF is_compressed(head)
    THEN Ceil(head.width, InputBlock(head.dxgi_format)[1])
             * Ceil(head.height, InputBlock(head.dxgi_format)[2])
             * InputBytes(head.dxgi_format)
    ELSE head.width * InputBytes(head.dxgi_format)

\* flags, pitch_or_linear_size, caps and caps2 as derived from the width,
\* height, depth, mip count and format of head.
DerivedFields(head) ==
    <<get_flags(is_compressed(head), is_3d(head)),
      DerivedPitch(head),
      get_caps(has_mips(head), is_cube(head)),
      get_caps2(is_cube(head), is_3d(head))>>

\* The cells flags, pitch_or_linear_size, caps and caps2 of a file.
WrittenFields(file) == <<file[3], file[6], file[16], file[17]>>

\* C15: in every header serialized by DDSHeader.write / DDS.save, the
\* fields flags, pitch_or_linear_size, caps and caps2 equal the values
\* derived from the width, height, depth, mip count and format of the
\* header at the moment of the write.  Stated for the case the claim names:
\* remove_mips followed directly by save.
C15_DerivedOnWrite ==
    (/\ call.op = "save"
     /\ prev.op = "remove_mips"
     /\ prev.err = ""
     /\ prev.args = call.args) =>
        WrittenFields(disk[call.path]) = DerivedFields(header[dds[call.args[1]].header])

\* C16: after DDSHeader.update (reached through disassemble or assemble)
\* the flags carry LINEARSIZE and not PITCH and pitch_or_linear_size is the
\* byte size of the largest mip when the format is block compressed, and
\* the flags carry PITCH and not LINEARSIZE and pitch_or_linear_size is
\* width times the bytes per pixel when it is uncompressed.
C16_PitchAfterUpdate ==
    call.op \in {"disassemble", "assemble"} =>
        /\ (BitAnd(header[dds[call.args[1]].header].flags, DDS_FLAGS_LINEARSIZE) # 0)
              = is_compressed(header[dds[call.args[1]].header])
        /\ (BitAnd(header[dds[call.args[1]].header].flags, DDS_FLAGS_PITCH) # 0)
              = ~is_compressed(header[dds[call.args[1]].header])
        /\ header[dds[call.args[1]].header].pitch_or_linear_size
              = DerivedPitch(header[dds[call.args[1]].header])

\* No call of assemble was made so far.
NoAssemble ==
    /\ ncalls <= 2
    /\ call.op # "assemble"
    /\ prev.op # "assemble"

\* C17: after any sequence of DDS.load, get_disassembled_dds_list,
\* DDS.assemble and remove_mips, every container object that exists - the
\* source container of a disassemble included - has as many slices as its
\* header counts.  Stated for the sequences without assemble.
C17_ContainerInvariant ==
    NoAssemble =>
        \A c \in DOMAIN dds :
            Len(dds[c].slice_bin_list) = get_num_slices(header[dds[c].header])


(***************************************************************************)
(* C18                                                                     *)
(***************************************************************************)

\* C18: DDSHeader.read rejects a header whose pixel_format.size is not 32:
\* every read of such a header ends in an error.
C18_PixelFormatSize ==
    (probe.op = "read" /\ probe.pf.size # PF_SIZE) => probe.err # ""

(***************************************************************************)
(* C20                                                                     *)
(***************************************************************************)
TextureTypes == {"2d", "2d_array", "cube", "cube_array", "volume"}

\* The type the fields depth, caps2 and array size stand for.
TypeOf(depth, caps2, array_size) ==
    CASE depth > 1 -> "volume"
      [] depth <= 1 /\ BitAnd(caps2, DDS_CAPS2_CUBEMAP) # 0 /\ array_size > 1 -> "cube_array"
      [] depth <= 1 /\ BitAnd(caps2, DDS_CAPS2_CUBEMAP) # 0 /\ array_size <= 1 -> "cube"
      [] depth <= 1 /\ BitAnd(caps2, DDS_CAPS2_CUBEMAP) = 0 /\ array_size > 1 -> "2d_array"
      [] depth <= 1 /\ BitAnd(caps2, DDS_CAPS2_CUBEMAP) = 0 /\ array_size <= 1 -> "2d"

\* The type a file is written as: depth, caps2 and, in a DX10 file, the
\* array size of the DX10 header (a legacy file holds no array).
FileType(file) ==
    TypeOf(file[7], file[17], IF file[11] = "DX10" THEN file[HeaderLen + 4] ELSE 1)

\* The container asked is the one the last call, a load, returned.
AskedAfterImport ==
    /\ probe.op = "get_texture_type"
    /\ call.op = "load" /\ call.err = ""
    /\ probe.c = Len(dds)

\* C20: get_texture_type returns one of 2d, 2d_array, cube, cube_array and
\* volume: volume exactly when depth > 1, otherwise cube or 2d by the caps2
\* cubemap bit, with _array exactly when the DX10 array size is above 1;
\* and the container of a file imported as an array, a volume or a cube
\* array reports the type the file was written as.
C20_TextureType ==
    /\ probe.op = "get_texture_type" =>
          /\ probe.type \in TextureTypes
          /\ probe.type = TypeOf(probe.head.depth, probe.head.caps2,
                                 probe.head.dx10_header.array_size)
    /\ AskedAfterImport => probe.type = FileType(disk[call.path])

C20_Witness ==
    /\ AskedAfterImport
    /\ probe.type = "volume"
    /\ BitAnd(probe.head.caps2, DDS_CAPS2_CUBEMAP) # 0
    /\ C20_TextureType

C20_WitnessCubeArray ==
    /\ AskedAfterImport
    /\ probe.type = "cube_array"

(***************************************************************************)
(* C19                                                                     *)
(***************************************************************************)
\* The last call assembled, not as an array, six containers that each held
\* one face under a header with the caps2 cubemap bit.
SixFacesAssembled ==
    /\ call.op = "assemble" /\ call.err = "" /\ ~call.is_array
    /\ Len(call.args) = 6
    /\ \A i \in 1..6 :
          /\ Len(call.dds0[call.args[i]].slice_bin_list) = 1
          /\ BitAnd(call.header0[call.dds0[call.args[i]].header].caps2,
                    DDS_CAPS2_CUBEMAP) # 0

\* C19: assembling six single-face containers of equal format, width and
\* height, with the cube flag on their headers and is_array = False, gives a
\* container whose caps2 cubemap bit is set, whose get_num_slices() is 6 and
\* whose array size is 1.
C19_CubeFromFaces ==
    SixFacesAssembled =>
        /\ BitAnd(header[dds[call.out[1]].header].caps2, DDS_CAPS2_CUBEMAP) # 0
        /\ get_num_slices(header[dds[call.out[1]].header]) = 6
        /\ get_array_size(header[dds[call.out[1]].header]) = 1

(***************************************************************************)
(* C21, C27: the ASTC conversions                                          *)
(***************************************************************************)
\* The container converted by the last call, before and after it.
Before == call.dds0[call.args[1]]
After == dds[call.args[1]]

\* Entry n of the log is the n-th pair (slice, mip level) in the order
\* slice by slice, mip levels ascending within a slice.
RankedLog(log, nslices, nlevels) ==
    \A n \in DOMAIN log :
        /\ log[n].slice \in 1..nslices
        /\ log[n].level \in 1..nlevels
        /\ (log[n].slice - 1) * nlevels + log[n].level = n

Unconverted ==
    /\ After.slice_bin_list = Before.slice_bin_list
    /\ header[After.header].dxgi_format = call.header0[Before.header].dxgi_format

\* C21: decompress_astc and compress_astc call the codec once for each pair
\* (slice, mip level), slice by slice and the mip levels ascending; when a
\* codec call fails the error reaches the caller, no call follows the failed
\* one, and the slices and the format of the container are as before.
C21_CodecCalls ==
    call.op \in {"decompress_astc", "compress_astc"} =>
        /\ RankedLog(lib.log, Len(Before.slice_bin_list),
                     call.header0[Before.header].mipmap_num)
        /\ call.err = "" =>
              Len(lib.log) = Len(Before.slice_bin_list)
                                 * call.header0[Before.header].mipmap_num
        /\ call.err = "CodecFailure" => Unconverted

C21_Witness ==
    /\ call.op = "decompress_astc"
    /\ call.err = "CodecFailure"
    /\ Len(lib.log) = 3
    /\ lib.log[3].slice = 2 /\ lib.log[3].level = 1
    /\ Unconverted
    /\ prev.op = "load"

\* C27: compress_astc with a format name that is not in the catalog fails
\* with the container unchanged: whenever compress_astc raises, the slices
\* and the header of the container are as before the call.
C27_AllOrNothing ==
    (call.op = "compress_astc" /\ call.err # "") =>
        /\ After.slice_bin_list = Before.slice_bin_list
        /\ header[After.header] = call.header0[Before.header]

(***************************************************************************)
(* C22: the import of several files                                        *)
(***************************************************************************)
\* import_dds on the file alone returns a texture.
Importable(p) == LoadDdsError(disk[p], read(disk[p])) = ""

\* C22: when the import of one file of a batch fails, every other file of
\* the batch is still imported: after the operator every file of the batch
\* that can be imported is among the images.
C22_BatchImport ==
    bpy.op = "import" =>
        \A i \in DOMAIN bpy.files :
            Importable(bpy.files[i]) => \E k \in DOMAIN bpy.images : bpy.images[k] = bpy.files[i]

(***************************************************************************)
(* C23, C28, C29: the native libraries                                     *)
(***************************************************************************)
\* C23: unload_texconv() and unload_astcenc() are safe in every state of the
\* library cache: they return without an error, and after them the global
\* handle of the library is None.
C23_UnloadSafe ==
    lib.op = "unload" => (lib.err = "" /\ lib.DLL[lib.of] = 0)

\* C28: no call reaches a closed library: a method of a Texconv or Astcenc
\* instance made before an unload never calls through the closed handle.
C28_NoClosedCall == ~lib.fault

\* C29: when compress_image or decompress_image returns or raises, every
\* context it allocated is freed: no context is allocated and not freed.
C29_ContextsFreed == lib.contexts = 0

(***************************************************************************)
(* C24, C25, C26: the headers on the heap                                  *)
(***************************************************************************)
\* The header of container c before and after the last call.
HeaderBefore(c) == call.header0[call.dds0[c].header]
HeaderNow(c) == header[dds[c].header]

\* The members of a list of containers.
Members(list) == {list[i] : i \in DOMAIN list}

\* C24: every container returned by get_disassembled_dds_list has a header
\* of its own: when the call after a disassemble changes the header of one
\* output (remove_mips, or assemble with it as first input), the header of
\* every other output and of the source is as before that call.
C24_IndependentHeaders ==
    (/\ prev.op = "disassemble"
     /\ call.op \in {"remove_mips", "assemble"}
     /\ call.args[1] \in Members(prev.out)) =>
        \A c \in (Members(prev.out) \cup Members(prev.args)) \ {call.args[1]} :
            HeaderNow(c) = HeaderBefore(c)

\* The fields of a header that update sets.
UpdatedFields(h) ==
    <<h.depth, h.dx10_header.array_size, h.flags, h.pitch_or_linear_size, h.caps,
      h.caps2, h.pixel_format>>

\* C25: DDS.assemble leaves every input unchanged, when it returns a
\* container and when it raises: depth, array size, flags,
\* pitch_or_linear_size, caps, caps2, pixel format and the slices of each
\* input are as before the call.
C25_AssembleInputs ==
    call.op = "assemble" =>
        \A c \in Members(call.args) :
            /\ UpdatedFields(HeaderNow(c)) = UpdatedFields(HeaderBefore(c))
            /\ dds[c].slice_bin_list = call.dds0[c].slice_bin_list

\* C26: every header DDSHeader.read accepts has get_num_slices() >= 1, and
\* DDS.load never fails with a division by zero.
C26_AtLeastOneSlice ==
    call.op = "load" =>
        /\ read(disk[call.path]).err = "" =>
              get_num_slices(read(disk[call.path]).head) >= 1
        /\ call.err # "ZeroDivisionError"

(***************************************************************************)
(* C30: the texture list                                                   *)
(***************************************************************************)
\* C30: after any sequence of the operators of the texture list, from the
\* empty list with list_index 0, list_index is never negative, and when the
\* list is not empty 0 <= list_index <= len(texture_list) - 1.
C30_ListIndex ==
    /\ bpy.list_index >= 0
    /\ bpy.texture_list # <<>> => bpy.list_index <= Len(bpy.texture_list) - 1
=============================================================================
